---- MODULE Spec2Model ----
(***************************************************************************)
(* Model of database-dumper-cli: the configuration store (configStore.ts), *)
(* the dump runner (dumpRunner.ts), the binary manager (binaryManager.ts), *)
(* the downloader (downloader.ts), the connection test                     *)
(* (connectionTester.ts), the flag catalog and the default dump path       *)
(* (flagsCatalog.ts, outputPaths.ts) and the secret store (secrets.ts).    *)
(* Each component has its own next-state relation and specification; the   *)
(* components share no state.                                              *)
(***************************************************************************)
EXTENDS Integers, Sequences, FiniteSets, TLC

(***************************************************************************)
(* Bounds of the model.                                                    *)
(***************************************************************************)
\* longest database list the model builds
MaxDbs == 2
\* last value of the millisecond clock that names backups
MaxClock == 1
\* number of store calls (load, upsert, delete, save) in one run
MaxOps == 4
\* chunks the exporter writes to its stdout, at most
MaxBytes == 2
\* chunks the exporter writes to its stderr, at most
MaxErr == 1
\* the longest path of distinct URLs a server chain runs through
MaxHops == 6
\* tokens the exporter writes to its stderr during a connection test, at most
MaxStderr == 3
\* the longest list of selected flag ids
MaxSelected == 3
\* the instants a default dump path is computed at: 0..MaxInstant
MaxInstant == 1
\* values randomUUID draws, at most
MaxUuids == 2
\* runs of the create/update wizard, at most
MaxWizardRuns == 2

(***************************************************************************)
(* Configuration store: values.                                            *)
(***************************************************************************)
SCHEMA_VERSION == 1

\* the JavaScript value undefined, as the value of an optional string field
Undefined == "undefined"

Ids == {"a", "b"}

\* DatabaseConfig, cut to the fields the store reads (id, alias); the alias
\* also stands for the rest of the entry's content
Entries == {[id |-> "a", alias |-> Undefined],
            [id |-> "a", alias |-> "b"],
            [id |-> "b", alias |-> Undefined]}

\* version numbers a file on disk may carry: older (0), current, newer
FileVersions == {0, SCHEMA_VERSION, SCHEMA_VERSION + 1}

VARIABLES
    cfgFile,      \* the file at the config path: <<>> (none) or <<content>>
    tmpFile,      \* the file at the config path + ".tmp"
    backups,      \* backups directory: timestamp -> <<>> or <<content>>
    now,          \* the clock, in the resolution of the backup timestamp
    defaultDbs,   \* the array DEFAULT_CONFIG.databases
    mem,          \* the ConfigFile object the caller holds: <<>> or <<object>>
    savePc,       \* position of the saveConfig call in progress
    saveOld,      \* history: the file at the config path when the save began
    saveNew,      \* the text saveConfig writes (JSON.stringify's result)
    saveStamp,    \* the timestamp of the backup this save made: <<>> or <<t>>
    saveBackups,  \* history: the backups directory when the save began
    last,         \* history: the last store operation and what it was given
    rt,           \* history: progress of a load / save / load round trip
    ops           \* number of store calls the caller has made

cfgVars == <<cfgFile, tmpFile, backups, now, defaultDbs, mem, savePc, saveOld,
             saveNew, saveStamp, saveBackups, last, rt, ops>>

VARIABLES
    child,        \* "none", "running", "spawnfail" (error event due), "exited"
    exitCode,     \* the child's exit code, once exited
    gzip,         \* req.gzip
    produced,     \* chunks the exporter has written to its stdout
    inPipe,       \* chunks in the stdout pipe, not yet read by 'data'
    srcEnded,     \* child.stdout has emitted 'end'
    gzBuf,        \* chunks inside the gzip stream, not yet emitted
    gzEnded,      \* the gzip stream has emitted its trailer and 'end'
    errWritten,   \* chunks the exporter has written to its stderr
    errPipe,      \* chunks in the stderr pipe, not yet read
    stderrBuf,    \* chunks captured in the variable stderr
    outState,     \* output stream: "none", "constructing", "opening", "open",
                  \* "closed", "destroyed"
    outEnding,    \* end() has been called on the output stream
    pending,      \* chunks written to the output stream, not yet in the file
    fileExists,   \* a file exists at req.outputPath
    fileSize,     \* its size in chunks
    progress,     \* the progress interval is set
    promise,      \* "none", "pending", "resolved", "rejected"
    rejMsg,       \* the message of the error the promise rejected with
    rejCaptured,  \* history: stderrBuf when the promise was rejected
    resSize,      \* sizeBytes of the result the promise resolved with
    statSize,     \* what fs.stat returned to the exit handler
    hSpawn,       \* position of the child 'error' handler
    hPipe,        \* position of the output stream 'error' handler
    hExit,        \* position of the child 'exit' handler
    streamErr,    \* history: "none", "output" or "gzip": the stream that failed
    crashed       \* an 'error' event had no listener: uncaught exception

dumpVars == <<child, exitCode, gzip, produced, inPipe, srcEnded, gzBuf, gzEnded,
              errWritten, errPipe, stderrBuf, outState, outEnding, pending,
              fileExists, fileSize, progress, promise, rejMsg, rejCaptured,
              resSize, statSize, hSpawn, hPipe, hExit, streamErr, crashed>>

childVars == <<child, exitCode, produced, errWritten>>
pipeVars == <<inPipe, srcEnded, gzBuf, gzEnded, errPipe, stderrBuf>>
outVars == <<outState, outEnding, pending>>
fileVars == <<fileExists, fileSize>>
promiseVars == <<promise, rejMsg, rejCaptured, resSize>>
handlerVars == <<hSpawn, hPipe, hExit, statSize>>

VARIABLES
    platform,     \* what getPlatformInfo returns: [platform, arch]
    cache,        \* the file at the cache path: "absent", "foreign" (there
                  \* before the program ran), "partial", "complete", "exec"
    bpc,          \* position of each ensureBinary call
    berr,         \* the error a failed call threw
    bret,         \* the path a finished call returned (<<>>: none)
    tmpDir,       \* the call's mkdtemp directory exists
    archiveSha,   \* sha256 of the archive the call downloaded ("" = none yet)
    extractTool,  \* the extraction a call has started: "none", "zip", "tar"
    extracted,    \* the call's extract directory: "none", "binary", "other"
    bsteps,       \* the steps of ensureBinary the call has taken
    bcall         \* the call's argument, what exists at the override path,
                  \* and the file at the cache path when the call began

binVars == <<platform, cache, bpc, berr, bret, tmpDir, archiveSha, extractTool,
             extracted, bsteps, bcall>>

\* downloadToFile: the state of one call, the destination file, and the
\* responses the servers have given so far (a URL answers the same each time)
VARIABLES dlPc, dlUrl, dlRedirects, dlRequests, dlHops, dlResp, dlErr, dlFile,
          dlFirst, dlRun, dlPrev, served

dlVars == <<dlPc, dlUrl, dlRedirects, dlRequests, dlHops, dlResp, dlErr, dlFile,
            dlFirst, dlRun, dlPrev, served>>

\* the exporter invocation: the request, the processes spawns so far, and
\* the state of one testConnection call
VARIABLES
    req,          \* the DumpRequest
    spawns,      \* argument vector and environment of each spawn, in order
    tcPc,         \* "idle", "waiting", "settled"
    tcChild,      \* "none", "alive", "failed" (error event pending), "exited"
    tcCode,       \* the exit code the handler saw (<<>>: no exit yet)
    tcWritten,    \* what the exporter wrote to stderr
    tcPipe,       \* chunks of it not yet delivered to the 'data' listener
    tcStderr,     \* the stderr string of testConnection
    tcResult      \* how the returned promise was settled (<<>>: pending)

probeVars == <<req, spawns, tcPc, tcChild, tcCode, tcWritten, tcPipe, tcStderr,
               tcResult>>

\* the pure helpers: the last call with its arguments and its result
VARIABLES call

toolVars == <<call>>

\* the secret store: the last call, the keytar module and the keychain
VARIABLES
    secretCall,       \* the last call: function, arguments, result
    keytarInstalled,  \* require('keytar') succeeds
    keytarModule,     \* the cached module: "undefined", "null", "loaded"
    keychain,         \* the passwords keytar holds, by account
    uuids,            \* how many values randomUUID has drawn
    lastSave          \* secret, ref and storage of the last savePassword

secretVars == <<secretCall, keytarInstalled, keytarModule, keychain, uuids, lastSave>>

\* two saveConfig calls on one path: the files, and each call's position
VARIABLES
    rcInodes,   \* the content of each inode
    rcPaths,    \* the inode the config path and its .tmp sibling name, or 0
    rcUsed,     \* how many inodes were created
    rcPc,       \* each call's position
    rcFd,       \* the inode each call's writeFile opened
    rcErr       \* the error each failed call rejected with

rcVars == <<rcInodes, rcPaths, rcUsed, rcPc, rcFd, rcErr>>

\* the create/update wizard
VARIABLES
    wzDisk,      \* the targets of the config file
    wzLoaded,    \* config is not null
    wzList,      \* config.databases
    wzEditing,   \* editingDb: <<>> or <<target>>
    wzPc,        \* the view, and the handler's position
    wzDb,        \* the target handleFlagsDone builds
    wzBefore,    \* config.databases when handleFlagsDone began
    wzPassword,  \* fieldValues.password
    wzRunTest,   \* runTest
    wzNow,       \* the clock
    wzIds,       \* how many ids exist
    wzRuns,      \* how many times the wizard was completed
    wzMessage    \* the message shown

wzVars == <<wzDisk, wzLoaded, wzList, wzEditing, wzPc, wzDb, wzBefore, wzPassword,
            wzRunTest, wzNow, wzIds, wzRuns, wzMessage>>

\* the dump flow
VARIABLES
    dsPc,        \* the view, and runDumpFlow's position
    dsDb,        \* selectedDb: <<>> or <<target>>
    dsGzip,      \* dumpGzip
    dsPath,      \* dumpOutputPath
    dsPassword,  \* dumpPassword is not empty
    dsRunTest,   \* dumpRunTest
    dsRequest    \* the request of the runDumpFlow call in progress

dsVars == <<dsPc, dsDb, dsGzip, dsPath, dsPassword, dsRunTest, dsRequest>>

vars == <<cfgVars, dumpVars, binVars, dlVars, probeVars, toolVars, secretVars,
          rcVars, wzVars, dsVars>>


(***************************************************************************)
(* JSON.stringify / JSON.parse.  A JSON text is the record of what it      *)
(* spells: a key that is absent is the empty sequence.  A file holds a     *)
(* text and whether all of it was written: a truncated text does not parse.*)
(***************************************************************************)
\* faulty variant: the serializer loses the optional alias
StringifyEntryNoAlias(e) == [id |-> e.id, alias |-> <<>>]

StringifyEntry(e) ==
    [id |-> e.id, alias |-> IF e.alias = Undefined THEN <<>> ELSE <<e.alias>>]

ParseEntry(j) ==
    [id |-> j.id, alias |-> IF j.alias = <<>> THEN Undefined ELSE j.alias[1]]

\* the databases array an in-memory config points to: DEFAULT_CONFIG's own
\* array when the object is a shallow copy of DEFAULT_CONFIG
Databases(c) == IF c.shared THEN defaultDbs ELSE c.own

Stringify(c) ==
    [version   |-> <<c.version>>,
     databases |-> [i \in 1..Len(Databases(c)) |-> StringifyEntry(Databases(c)[i])]]

ParseDatabases(text) ==
    [i \in 1..Len(text.databases) |-> ParseEntry(text.databases[i])]

Full(text) == [text |-> text, complete |-> TRUE]
Partial(text) == [text |-> text, complete |-> FALSE]

\* the version loadConfig leaves in the parsed object
StampedVersion(text) ==
    IF text.version = <<>> \/ text.version[1] = 0
    THEN 1
    ELSE text.version[1]

(***************************************************************************)
(* The pure list operations of configStore.ts.                             *)
(***************************************************************************)
\* faulty variant: no entry is ever found
NeverFound(dbs, id) == 0

\* Array.prototype.findIndex on the id; 0 stands for JavaScript's -1
FindIndex(dbs, id) ==
    IF \E i \in 1..Len(dbs) : dbs[i].id = id
    THEN CHOOSE i \in 1..Len(dbs) :
            /\ dbs[i].id = id
            /\ \A j \in 1..(i - 1) : dbs[j].id # id
    ELSE 0

\* faulty variant: the entry is pushed whether or not its id is in the list
UpsertAlwaysPush(dbs, entry) == Append(dbs, entry)

UpsertList(dbs, entry) ==
    IF FindIndex(dbs, entry.id) > 0
    THEN [dbs EXCEPT ![FindIndex(dbs, entry.id)] = entry]
    ELSE Append(dbs, entry)

\* faulty variant: the filter's test inverted
KeepSameId(d, id) == d.id = id

KeepOtherIds(d, id) == d.id # id

\* faulty variant: only the first entry with the id is taken out
DeleteFirstMatch(dbs, id) ==
    IF FindIndex(dbs, id) = 0
    THEN dbs
    ELSE SubSeq(dbs, 1, FindIndex(dbs, id) - 1)
            \o SubSeq(dbs, FindIndex(dbs, id) + 1, Len(dbs))

DeleteList(dbs, id) == SelectSeq(dbs, LAMBDA d : KeepOtherIds(d, id))

NoOp == [op |-> "none", before |-> <<>>, pre |-> <<>>, entry |-> <<>>, id |-> ""]
NoTrip == [stage |-> 0, first |-> <<>>, ver |-> <<>>]

\* the caller makes its next store call when the previous one has returned
SaveIdle == savePc = "idle"

CanCall == SaveIdle /\ ops < MaxOps

(***************************************************************************)
(* Files a user may have at the config path before the program runs.       *)
(***************************************************************************)
DbLists == UNION {[1..n -> Entries] : n \in 0..MaxDbs}

\* the JSON object that spells entry e
JsonOf(e) == IF e.alias = Undefined
             THEN [id |-> e.id, alias |-> <<>>]
             ELSE [id |-> e.id, alias |-> <<e.alias>>]

JsonTexts ==
    {[version |-> v, databases |-> [i \in 1..Len(l) |-> JsonOf(l[i])]] :
        v \in {<<>>} \cup {<<n>> : n \in FileVersions}, l \in DbLists}

Stamps == 0..MaxClock

InitConfig ==
    /\ cfgFile \in {<<>>} \cup {<<Full(t)>> : t \in JsonTexts}
    /\ tmpFile = <<>>
    /\ backups = [t \in Stamps |-> <<>>]
    /\ now = 0
    /\ defaultDbs = <<>>
    /\ mem = <<>>
    /\ savePc = "idle"
    /\ saveOld = <<>>
    /\ saveNew = Stringify([version |-> SCHEMA_VERSION, shared |-> FALSE, own |-> <<>>])
    /\ saveStamp = <<>>
    /\ saveBackups = backups
    /\ last = NoOp
    /\ rt = NoTrip
    /\ ops = 0

(***************************************************************************)
(* loadConfig                                                              *)
(***************************************************************************)
diskVars == <<cfgFile, tmpFile, backups>>
saveVars == <<savePc, saveOld, saveNew, saveStamp, saveBackups>>

\* what loadConfig returns when no file exists: { ...DEFAULT_CONFIG }, a
\* shallow copy, whose databases is DEFAULT_CONFIG's own array
DefaultCopy == [version |-> SCHEMA_VERSION, shared |-> TRUE, own |-> <<>>]

LoadMissing ==
    /\ CanCall
    /\ cfgFile = <<>>
    /\ mem' = <<DefaultCopy>>
    /\ last' = [NoOp EXCEPT !.op = "loadMissing"]
    /\ rt' = NoTrip
    /\ ops' = ops + 1
    /\ UNCHANGED <<diskVars, saveVars, now, defaultDbs>>
    /\ UNCHANGED <<dumpVars, binVars, dlVars, probeVars, toolVars, secretVars, rcVars, wzVars, dsVars>>

LoadExisting ==
    /\ CanCall
    /\ cfgFile # <<>>
    /\ cfgFile[1].complete
    /\ mem' = <<[version |-> StampedVersion(cfgFile[1].text),
                 shared  |-> FALSE,
                 own     |-> ParseDatabases(cfgFile[1].text)]>>
    /\ last' = [NoOp EXCEPT !.op = "loadExisting"]
    /\ rt' = IF rt.stage = 2
             THEN [rt EXCEPT !.stage = 3]
             ELSE [stage |-> 1, first |-> ParseDatabases(cfgFile[1].text),
                   ver |-> cfgFile[1].text.version]
    /\ ops' = ops + 1
    /\ UNCHANGED <<diskVars, saveVars, now, defaultDbs>>
    /\ UNCHANGED <<dumpVars, binVars, dlVars, probeVars, toolVars, secretVars, rcVars, wzVars, dsVars>>

(***************************************************************************)
(* upsertDatabase / deleteDatabase on the object the caller holds          *)
(***************************************************************************)
Upsert(entry) ==
    /\ CanCall
    /\ mem # <<>>
    /\ FindIndex(Databases(mem[1]), entry.id) > 0 \/ Len(Databases(mem[1])) < MaxDbs
    /\ IF mem[1].shared
       THEN /\ defaultDbs' = UpsertList(defaultDbs, entry)
            /\ mem' = mem
       ELSE /\ mem' = <<[mem[1] EXCEPT !.own = UpsertList(mem[1].own, entry)]>>
            /\ defaultDbs' = defaultDbs
    /\ last' = [op |-> "upsert", before |-> Databases(mem[1]),
                pre |-> Databases(mem[1]), entry |-> <<entry>>, id |-> entry.id]
    /\ rt' = NoTrip
    /\ ops' = ops + 1
    /\ UNCHANGED <<diskVars, saveVars, now>>
    /\ UNCHANGED <<dumpVars, binVars, dlVars, probeVars, toolVars, secretVars, rcVars, wzVars, dsVars>>

Delete(id) ==
    /\ CanCall
    /\ mem # <<>>
    /\ mem' = <<[mem[1] EXCEPT !.shared = FALSE,
                               !.own = DeleteList(Databases(mem[1]), id)]>>
    /\ last' = IF last.op = "upsert" /\ last.id = id
               THEN [last EXCEPT !.op = "upsertDelete", !.pre = Databases(mem[1])]
               ELSE [op |-> "delete", before |-> Databases(mem[1]),
                     pre |-> Databases(mem[1]), entry |-> <<>>, id |-> id]
    /\ rt' = NoTrip
    /\ ops' = ops + 1
    /\ UNCHANGED <<diskVars, saveVars, now, defaultDbs>>
    /\ UNCHANGED <<dumpVars, binVars, dlVars, probeVars, toolVars, secretVars, rcVars, wzVars, dsVars>>

\* the clock passes to the next timestamp value (between two store calls)
Tick ==
    /\ SaveIdle
    /\ now < MaxClock
    /\ now' = now + 1
    /\ UNCHANGED <<diskVars, saveVars, defaultDbs, mem, last, rt, ops>>
    /\ UNCHANGED <<dumpVars, binVars, dlVars, probeVars, toolVars, secretVars, rcVars, wzVars, dsVars>>

(***************************************************************************)
(* saveConfig, one action per await.  fs-extra's move with overwrite       *)
(* removes the destination and then renames the source onto it.            *)
(***************************************************************************)
\* faulty variant: the version of the object is left as it is
KeptVersion(v) == v

\* line 48: config.version = SCHEMA_VERSION
SavedVersion(v) == SCHEMA_VERSION

\* lines 46-48 and the pathExists of line 51
SaveBegin ==
    /\ CanCall
    /\ mem # <<>>
    /\ mem' = <<[mem[1] EXCEPT !.version = SavedVersion(mem[1].version)]>>
    /\ saveOld' = cfgFile
    /\ saveStamp' = <<>>
    /\ saveBackups' = backups
    /\ savePc' = IF cfgFile # <<>> THEN "backup" ELSE "write"
    /\ last' = [NoOp EXCEPT !.op = "save"]
    /\ rt' = IF rt.stage = 1 THEN rt ELSE NoTrip
    /\ ops' = ops + 1
    /\ UNCHANGED <<diskVars, now, defaultDbs, saveNew>>
    /\ UNCHANGED <<dumpVars, binVars, dlVars, probeVars, toolVars, secretVars, rcVars, wzVars, dsVars>>

\* faulty variant: the backup copy left out
BackupCopySkipped(dir, stamp, file) == dir

\* what copyFile leaves in the backups directory
BackupCopy(dir, stamp, file) == [dir EXCEPT ![stamp] = file]

\* lines 52-56: the copy into backups/config.bak.<stamp>.json
SaveBackup ==
    /\ savePc = "backup"
    /\ cfgFile # <<>>
    /\ backups' = BackupCopy(backups, now, cfgFile)
    /\ saveStamp' = <<now>>
    /\ savePc' = "write"
    /\ UNCHANGED <<cfgFile, tmpFile, saveOld, saveNew, saveBackups, now, defaultDbs, mem, last, rt, ops>>
    /\ UNCHANGED <<dumpVars, binVars, dlVars, probeVars, toolVars, secretVars, rcVars, wzVars, dsVars>>

\* the path the writeFile of line 60 writes to
WriteTarget == "tmp"

\* line 60: writeFile opens (truncates) the target ...
SaveWriteOpen ==
    /\ savePc = "write"
    /\ saveNew' = Stringify(mem[1])
    /\ IF WriteTarget = "tmp"
       THEN tmpFile' = <<Partial(Stringify(mem[1]))>> /\ cfgFile' = cfgFile
       ELSE cfgFile' = <<Partial(Stringify(mem[1]))>> /\ tmpFile' = tmpFile
    /\ savePc' = "writing"
    /\ UNCHANGED <<backups, saveOld, saveStamp, saveBackups, now, defaultDbs, mem, last, rt, ops>>
    /\ UNCHANGED <<dumpVars, binVars, dlVars, probeVars, toolVars, secretVars, rcVars, wzVars, dsVars>>

\* ... and writes the text
SaveWriteDone ==
    /\ savePc = "writing"
    /\ IF WriteTarget = "tmp"
       THEN tmpFile' = <<Full(saveNew)>> /\ cfgFile' = cfgFile
       ELSE cfgFile' = <<Full(saveNew)>> /\ tmpFile' = tmpFile
    /\ savePc' = "move"
    /\ UNCHANGED <<backups, saveOld, saveNew, saveStamp, saveBackups, now, defaultDbs, mem, last, rt, ops>>
    /\ UNCHANGED <<dumpVars, binVars, dlVars, probeVars, toolVars, secretVars, rcVars, wzVars, dsVars>>

\* line 61, fs-extra move: the source must exist; remove(dest)
SaveMoveRemove ==
    /\ savePc = "move"
    /\ tmpFile # <<>>
    /\ cfgFile' = <<>>
    /\ savePc' = "rename"
    /\ UNCHANGED <<tmpFile, backups, saveOld, saveNew, saveStamp, saveBackups, now, defaultDbs, mem,
                   last, rt, ops>>
    /\ UNCHANGED <<dumpVars, binVars, dlVars, probeVars, toolVars, secretVars, rcVars, wzVars, dsVars>>

\* line 61, fs-extra move: rename(src, dest)
SaveMoveRename ==
    /\ savePc = "rename"
    /\ tmpFile # <<>>
    /\ cfgFile' = tmpFile
    /\ tmpFile' = <<>>
    /\ savePc' = "done"
    /\ UNCHANGED <<backups, saveOld, saveNew, saveStamp, saveBackups, now, defaultDbs, mem, last, rt, ops>>
    /\ UNCHANGED <<dumpVars, binVars, dlVars, probeVars, toolVars, secretVars, rcVars, wzVars, dsVars>>

\* an I/O error, or a missing source file, rejects the await the save is at
SaveFail ==
    /\ savePc \in {"backup", "write", "writing", "move", "rename"}
    /\ savePc' = "failed"
    /\ UNCHANGED <<diskVars, saveOld, saveNew, saveStamp, saveBackups, now, defaultDbs, mem, last, rt, ops>>
    /\ UNCHANGED <<dumpVars, binVars, dlVars, probeVars, toolVars, secretVars, rcVars, wzVars, dsVars>>

\* the promise of saveConfig settles and the caller goes on
SaveReturn ==
    /\ savePc \in {"done", "failed"}
    /\ savePc' = "idle"
    /\ last' = [NoOp EXCEPT !.op = IF savePc = "done" THEN "saved" ELSE "saveFailed"]
    /\ rt' = IF rt.stage = 1 /\ savePc = "done" THEN [rt EXCEPT !.stage = 2] ELSE NoTrip
    /\ saveOld' = <<>>
    /\ saveStamp' = <<>>
    /\ saveBackups' = backups
    /\ UNCHANGED <<diskVars, saveNew, now, defaultDbs, mem, ops>>
    /\ UNCHANGED <<dumpVars, binVars, dlVars, probeVars, toolVars, secretVars, rcVars, wzVars, dsVars>>

NextConfig ==
    \/ LoadMissing
    \/ LoadExisting
    \/ \E e \in Entries : Upsert(e)
    \/ \E id \in Ids : Delete(id)
    \/ Tick
    \/ SaveBegin
    \/ SaveBackup
    \/ SaveWriteOpen
    \/ SaveWriteDone
    \/ SaveMoveRemove
    \/ SaveMoveRename
    \/ SaveFail
    \/ SaveReturn


(***************************************************************************)
(* Dump runner (runDump).  The exporter child, its stdout and stderr       *)
(* pipes, the gzip stream, the output file stream and the three async      *)
(* event handlers are separate pieces of state; every event of Node's      *)
(* event loop and every file operation of its thread pool is one action.   *)
(***************************************************************************)
InitDump ==
    /\ child = "none"
    /\ exitCode = 0
    /\ gzip = FALSE
    /\ produced = 0
    /\ inPipe = 0
    /\ srcEnded = FALSE
    /\ gzBuf = 0
    /\ gzEnded = FALSE
    /\ errWritten = 0
    /\ errPipe = 0
    /\ stderrBuf = 0
    /\ outState = "none"
    /\ outEnding = FALSE
    /\ pending = 0
    /\ fileExists = FALSE
    /\ fileSize = 0
    /\ progress = FALSE
    /\ promise = "none"
    /\ rejMsg = ""
    /\ rejCaptured = 0
    /\ resSize = 0
    /\ statSize = 0
    /\ hSpawn = "idle"
    /\ hPipe = "idle"
    /\ hExit = "idle"
    /\ streamErr = "none"
    /\ crashed = FALSE

Alive == promise # "none" /\ ~crashed

\* lines 67-140 up to the await: spawn, createWriteStream, setInterval, the
\* pipes and the handlers.  A spawn that fails still returns a child, whose
\* 'error' event is due on the next tick, before the stream's open is issued.
DumpStart(gz, spawned) ==
    /\ promise = "none"
    /\ gzip' = gz
    /\ child' = IF spawned THEN "running" ELSE "spawnfail"
    /\ outState' = IF spawned THEN "opening" ELSE "constructing"
    /\ progress' = TRUE
    /\ promise' = "pending"
    /\ UNCHANGED <<exitCode, produced, errWritten, pipeVars, outEnding, pending,
                   fileVars, rejMsg, rejCaptured, resSize, handlerVars, streamErr,
                   crashed>>
    /\ UNCHANGED <<cfgVars, binVars, dlVars, probeVars, toolVars, secretVars, rcVars, wzVars, dsVars>>

\* what cleanup(err) does to the interval (line 100)
CleanupProgress(p) == FALSE

\* lines 121-124 with cleanup (99-105) up to the await of fs.remove
SpawnErrorEvent ==
    /\ Alive
    /\ child = "spawnfail"
    /\ hSpawn = "idle"
    /\ progress' = CleanupProgress(progress)
    /\ outEnding' = TRUE
    /\ outState' = "opening"
    /\ hSpawn' = "remove"
    /\ UNCHANGED <<childVars, gzip, pipeVars, pending, fileVars, promiseVars, hPipe,
                   hExit, statSize, streamErr, crashed>>
    /\ UNCHANGED <<cfgVars, binVars, dlVars, probeVars, toolVars, secretVars, rcVars, wzVars, dsVars>>

\* fs.createWriteStream's open (flags 'w') runs on the thread pool
OpenDone ==
    /\ Alive
    /\ outState = "opening"
    /\ outState' = "open"
    /\ fileExists' = TRUE
    /\ fileSize' = 0
    /\ UNCHANGED <<childVars, gzip, pipeVars, outEnding, pending, progress,
                   promiseVars, handlerVars, streamErr, crashed>>
    /\ UNCHANGED <<cfgVars, binVars, dlVars, probeVars, toolVars, secretVars, rcVars, wzVars, dsVars>>

\* the exporter writes a chunk to its stdout
ChildWrite ==
    /\ child = "running"
    /\ produced < MaxBytes
    /\ produced' = produced + 1
    /\ inPipe' = inPipe + 1
    /\ UNCHANGED <<child, exitCode, errWritten, gzip, srcEnded, gzBuf, gzEnded,
                   errPipe, stderrBuf, outVars, fileVars, progress, promiseVars,
                   handlerVars, streamErr, crashed>>
    /\ UNCHANGED <<cfgVars, binVars, dlVars, probeVars, toolVars, secretVars, rcVars, wzVars, dsVars>>

\* the exporter writes a chunk to its stderr
ChildWriteErr ==
    /\ child = "running"
    /\ errWritten < MaxErr
    /\ errWritten' = errWritten + 1
    /\ errPipe' = errPipe + 1
    /\ UNCHANGED <<child, exitCode, produced, gzip, inPipe, srcEnded, gzBuf,
                   gzEnded, stderrBuf, outVars, fileVars, progress, promiseVars,
                   handlerVars, streamErr, crashed>>
    /\ UNCHANGED <<cfgVars, binVars, dlVars, probeVars, toolVars, secretVars, rcVars, wzVars, dsVars>>

\* lines 89-91
StderrData ==
    /\ Alive
    /\ errPipe > 0
    /\ errPipe' = errPipe - 1
    /\ stderrBuf' = stderrBuf + 1
    /\ UNCHANGED <<childVars, gzip, inPipe, srcEnded, gzBuf, gzEnded, outVars,
                   fileVars, progress, promiseVars, handlerVars, streamErr, crashed>>
    /\ UNCHANGED <<cfgVars, binVars, dlVars, probeVars, toolVars, secretVars, rcVars, wzVars, dsVars>>

\* a write to the output stream (the pipe of line 114): queued while the
\* stream is writable; after end() it is an error event of the stream, which
\* the handler of lines 117-120 takes up to its await; a destroyed or closed
\* stream is no longer piped to
WriteOut ==
    IF outState \in {"opening", "open"} /\ ~outEnding
    THEN /\ pending' = pending + 1
         /\ UNCHANGED <<outState, outEnding, progress, hPipe>>
    ELSE IF outState \in {"opening", "open"}
    THEN /\ outState' = "destroyed"
         /\ pending' = 0
         /\ progress' = CleanupProgress(progress)
         /\ hPipe' = IF hPipe = "idle" THEN "remove" ELSE hPipe
         /\ UNCHANGED outEnding
    ELSE UNCHANGED <<outState, outEnding, pending, progress, hPipe>>

\* source.pipe's end of input: end() on the output stream
EndOut ==
    /\ outEnding' = (outEnding \/ outState \in {"opening", "open"})
    /\ UNCHANGED <<outState, pending, progress, hPipe>>

\* 'data' of child.stdout (lines 108-114)
StdoutData ==
    /\ Alive
    /\ inPipe > 0
    /\ inPipe' = inPipe - 1
    /\ IF gzip
       THEN /\ gzBuf' = gzBuf + 1
            /\ UNCHANGED <<outState, outEnding, pending, progress, hPipe>>
       ELSE /\ WriteOut
            /\ UNCHANGED gzBuf
    /\ UNCHANGED <<childVars, gzip, srcEnded, gzEnded, errPipe, stderrBuf, fileVars,
                   promiseVars, hSpawn, hExit, statSize, streamErr, crashed>>
    /\ UNCHANGED <<cfgVars, binVars, dlVars, probeVars, toolVars, secretVars, rcVars, wzVars, dsVars>>

\* 'end' of child.stdout
StdoutEnd ==
    /\ Alive
    /\ child \in {"exited", "spawnfail"}
    /\ inPipe = 0
    /\ ~srcEnded
    /\ srcEnded' = TRUE
    /\ IF gzip
       THEN UNCHANGED <<outState, outEnding, pending, progress, hPipe>>
       ELSE EndOut
    /\ UNCHANGED <<childVars, gzip, inPipe, gzBuf, gzEnded, errPipe, stderrBuf,
                   fileVars, promiseVars, hSpawn, hExit, statSize, streamErr, crashed>>
    /\ UNCHANGED <<cfgVars, binVars, dlVars, probeVars, toolVars, secretVars, rcVars, wzVars, dsVars>>

\* the gzip stream emits a compressed chunk
GzipData ==
    /\ Alive
    /\ gzip
    /\ gzBuf > 0
    /\ gzBuf' = gzBuf - 1
    /\ WriteOut
    /\ UNCHANGED <<childVars, gzip, inPipe, srcEnded, gzEnded, errPipe, stderrBuf,
                   fileVars, promiseVars, hSpawn, hExit, statSize, streamErr, crashed>>
    /\ UNCHANGED <<cfgVars, binVars, dlVars, probeVars, toolVars, secretVars, rcVars, wzVars, dsVars>>

\* the gzip stream, its input ended, emits 'end'
GzipEnd ==
    /\ Alive
    /\ gzip
    /\ srcEnded
    /\ gzBuf = 0
    /\ ~gzEnded
    /\ gzEnded' = TRUE
    /\ EndOut
    /\ UNCHANGED <<childVars, gzip, inPipe, srcEnded, gzBuf, errPipe, stderrBuf,
                   fileVars, promiseVars, hSpawn, hExit, statSize, streamErr, crashed>>
    /\ UNCHANGED <<cfgVars, binVars, dlVars, probeVars, toolVars, secretVars, rcVars, wzVars, dsVars>>

\* the thread pool writes a queued chunk; the file may have been unlinked
Flush ==
    /\ Alive
    /\ outState = "open"
    /\ pending > 0
    /\ pending' = pending - 1
    /\ fileSize' = IF fileExists THEN fileSize + 1 ELSE fileSize
    /\ UNCHANGED <<childVars, gzip, pipeVars, outState, outEnding, fileExists,
                   progress, promiseVars, handlerVars, streamErr, crashed>>
    /\ UNCHANGED <<cfgVars, binVars, dlVars, probeVars, toolVars, secretVars, rcVars, wzVars, dsVars>>

\* 'finish' of the output stream: the descriptor is closed
OutFinish ==
    /\ Alive
    /\ outState = "open"
    /\ outEnding
    /\ pending = 0
    /\ outState' = "closed"
    /\ UNCHANGED <<childVars, gzip, pipeVars, outEnding, pending, fileVars, progress,
                   promiseVars, handlerVars, streamErr, crashed>>
    /\ UNCHANGED <<cfgVars, binVars, dlVars, probeVars, toolVars, secretVars, rcVars, wzVars, dsVars>>

\* who listens to 'error' of the gzip stream: nobody (piping is the output
\* stream, line 114), so the event is an uncaught exception
GzipErrorHandled == FALSE

\* an I/O error of the output stream (its open or a write fails): the handler
\* of lines 117-120 up to the await of fs.remove
OutputError ==
    /\ Alive
    /\ child # "spawnfail" \/ hSpawn # "idle"
    /\ outState \in {"opening", "open"}
    /\ streamErr = "none"
    /\ streamErr' = "output"
    /\ outState' = "destroyed"
    /\ pending' = 0
    /\ progress' = CleanupProgress(progress)
    /\ hPipe' = IF hPipe = "idle" THEN "remove" ELSE hPipe
    /\ UNCHANGED <<childVars, gzip, pipeVars, outEnding, fileVars, promiseVars,
                   hSpawn, hExit, statSize, crashed>>
    /\ UNCHANGED <<cfgVars, binVars, dlVars, probeVars, toolVars, secretVars, rcVars, wzVars, dsVars>>

\* an error of the gzip stream (line 107)
GzipError ==
    /\ Alive
    /\ gzip
    /\ child = "running"
    /\ streamErr = "none"
    /\ streamErr' = "gzip"
    /\ IF GzipErrorHandled
       THEN /\ progress' = CleanupProgress(progress)
            /\ hPipe' = IF hPipe = "idle" THEN "remove" ELSE hPipe
            /\ UNCHANGED crashed
       ELSE /\ crashed' = TRUE
            /\ UNCHANGED <<progress, hPipe>>
    /\ UNCHANGED <<childVars, gzip, pipeVars, outVars, fileVars, promiseVars,
                   hSpawn, hExit, statSize>>
    /\ UNCHANGED <<cfgVars, binVars, dlVars, probeVars, toolVars, secretVars, rcVars, wzVars, dsVars>>

\* lines 125-132 up to the first await: the child exits with `code`
ChildExit(code) ==
    /\ Alive
    /\ child = "running"
    /\ child' = "exited"
    /\ exitCode' = code
    /\ progress' = FALSE
    /\ IF code # 0
       THEN /\ hExit' = "remove"
            /\ outEnding' = (outEnding \/ outState \in {"opening", "open"})
       ELSE /\ hExit' = "stat"
            /\ UNCHANGED outEnding
    /\ UNCHANGED <<produced, errWritten, gzip, pipeVars, outState, pending, fileVars,
                   promiseVars, hSpawn, hPipe, statSize, streamErr, crashed>>
    /\ UNCHANGED <<cfgVars, binVars, dlVars, probeVars, toolVars, secretVars, rcVars, wzVars, dsVars>>

\* what fs.remove(req.outputPath) leaves at the path (line 103)
Removed(exists) == FALSE

\* fs.remove of a handler's cleanup runs on the thread pool
RemoveExec ==
    /\ Alive
    /\ \/ hSpawn = "remove" /\ hSpawn' = "removed" /\ UNCHANGED <<hPipe, hExit>>
       \/ hPipe = "remove" /\ hPipe' = "removed" /\ UNCHANGED <<hSpawn, hExit>>
       \/ hExit = "remove" /\ hExit' = "removed" /\ UNCHANGED <<hSpawn, hPipe>>
    /\ fileExists' = Removed(fileExists)
    /\ fileSize' = IF Removed(fileExists) THEN fileSize ELSE 0
    /\ UNCHANGED <<childVars, gzip, pipeVars, outVars, progress, promiseVars,
                   statSize, streamErr, crashed>>
    /\ UNCHANGED <<cfgVars, binVars, dlVars, probeVars, toolVars, secretVars, rcVars, wzVars, dsVars>>

\* the message of the exit handler's error (lines 128-129)
ExitMessage == IF stderrBuf > 0 THEN "stderr" ELSE "exitcode"

Reject(msg) ==
    IF promise = "pending"
    THEN /\ promise' = "rejected"
         /\ rejMsg' = msg
         /\ rejCaptured' = stderrBuf
         /\ UNCHANGED resSize
    ELSE UNCHANGED promiseVars

\* a handler resumes after its cleanup and calls reject (lines 119, 123, 129)
HandlerReject ==
    /\ Alive
    /\ \/ hSpawn = "removed" /\ hSpawn' = "done" /\ Reject("spawn")
          /\ UNCHANGED <<hPipe, hExit>>
       \/ hPipe = "removed" /\ hPipe' = "done" /\ Reject("stream")
          /\ UNCHANGED <<hSpawn, hExit>>
       \/ hExit = "removed" /\ hExit' = "done" /\ Reject(ExitMessage)
          /\ UNCHANGED <<hSpawn, hPipe>>
    /\ UNCHANGED <<childVars, gzip, pipeVars, outVars, fileVars, progress, statSize,
                   streamErr, crashed>>
    /\ UNCHANGED <<cfgVars, binVars, dlVars, probeVars, toolVars, secretVars, rcVars, wzVars, dsVars>>

\* fs.stat of line 132 runs on the thread pool; with no file it rejects, and
\* the handler throws past its resolve
StatExec ==
    /\ Alive
    /\ hExit = "stat"
    /\ IF fileExists
       THEN hExit' = "statted" /\ statSize' = fileSize
       ELSE hExit' = "thrown" /\ UNCHANGED statSize
    /\ UNCHANGED <<childVars, gzip, pipeVars, outVars, fileVars, progress,
                   promiseVars, hSpawn, hPipe, streamErr, crashed>>
    /\ UNCHANGED <<cfgVars, binVars, dlVars, probeVars, toolVars, secretVars, rcVars, wzVars, dsVars>>

\* lines 133-138
ExitResolve ==
    /\ Alive
    /\ hExit = "statted"
    /\ hExit' = "done"
    /\ IF promise = "pending"
       THEN promise' = "resolved" /\ resSize' = statSize
            /\ UNCHANGED <<rejMsg, rejCaptured>>
       ELSE UNCHANGED promiseVars
    /\ UNCHANGED <<childVars, gzip, pipeVars, outVars, fileVars, progress, hSpawn,
                   hPipe, statSize, streamErr, crashed>>
    /\ UNCHANGED <<cfgVars, binVars, dlVars, probeVars, toolVars, secretVars, rcVars, wzVars, dsVars>>

NextDump ==
    \/ \E gz \in BOOLEAN, spawned \in BOOLEAN : DumpStart(gz, spawned)
    \/ SpawnErrorEvent
    \/ OpenDone
    \/ ChildWrite
    \/ ChildWriteErr
    \/ StderrData
    \/ StdoutData
    \/ StdoutEnd
    \/ GzipData
    \/ GzipEnd
    \/ Flush
    \/ OutFinish
    \/ OutputError
    \/ GzipError
    \/ \E code \in 0..1 : ChildExit(code)
    \/ RemoveExec
    \/ HandlerReject
    \/ StatExec
    \/ ExitResolve


(***************************************************************************)
(* Binary manager (ensureBinary), one action per await.  Calls are         *)
(* numbered; each has its own mkdtemp directory.                           *)
(***************************************************************************)
Calls == {1, 2}

\* versionMap.ts; the sha256 values are cut to their first eight digits
PINNED_MYSQL_VERSION == "8.0.36"

BINARY_MAP ==
    << [version |-> PINNED_MYSQL_VERSION, platform |-> "linux", arch |-> "x64",
        sha256 |-> "ffd80e37", archiveType |-> "tar.xz"],
       [version |-> PINNED_MYSQL_VERSION, platform |-> "linux", arch |-> "arm64",
        sha256 |-> "c05cc22c", archiveType |-> "tar.xz"],
       [version |-> PINNED_MYSQL_VERSION, platform |-> "darwin", arch |-> "arm64",
        sha256 |-> "c419d50b", archiveType |-> "tar.gz"],
       [version |-> PINNED_MYSQL_VERSION, platform |-> "darwin", arch |-> "x64",
        sha256 |-> "99ffdfc3", archiveType |-> "tar.gz"],
       [version |-> PINNED_MYSQL_VERSION, platform |-> "win32", arch |-> "x64",
        sha256 |-> "a1bc2ad5", archiveType |-> "zip"] >>

\* faulty variant: the architecture is not compared
MatchingPlatform(p, a) == SelectSeq(BINARY_MAP, LAMBDA b : b.platform = p)

\* the entries resolveBinaryDescriptor's find tests true, in catalog order
Matching(p, a) ==
    SelectSeq(BINARY_MAP, LAMBDA b : b.platform = p /\ b.arch = a)

\* faulty variant: an unknown platform falls back to the first descriptor
FirstDescriptor(p, a) == <<BINARY_MAP[1]>>

\* Array.prototype.find: <<>> stands for undefined
resolveBinaryDescriptor(p, a) ==
    IF Matching(p, a) = <<>> THEN <<>> ELSE <<Matching(p, a)[1]>>

Descriptor == resolveBinaryDescriptor(platform.platform, platform.arch)[1]

isWindows == platform.platform = "win32"

\* the platforms the model runs on: those of the catalog and one outside it
Platforms == {[platform |-> "linux", arch |-> "x64"],
              [platform |-> "linux", arch |-> "arm64"],
              [platform |-> "darwin", arch |-> "arm64"],
              [platform |-> "darwin", arch |-> "x64"],
              [platform |-> "win32", arch |-> "x64"],
              [platform |-> "freebsd", arch |-> "x64"]}

\* binaryManager.ts, lines 1418-1421
BINARY_NAMES == [win32 |-> "mysqldump.exe", default |-> "mysqldump"]

\* a path is absolute or relative, with its segments
Cwd == <<"work">>

\* path.resolve
PathResolve(p) == IF p.abs THEN p ELSE [abs |-> TRUE, segs |-> Cwd \o p.segs]

\* lines 1451-1453: the cache directory of the platform and the binary name
CachePath ==
    [abs |-> TRUE,
     segs |-> <<"home", ".database-cli-dumper", "bin", platform.platform, platform.arch,
                IF isWindows THEN BINARY_NAMES.win32 ELSE BINARY_NAMES.default>>]

\* the customPath arguments of the model: undefined, the empty string, an
\* absolute path and a relative one
CustomPaths ==
    {<<>>,
     <<[abs |-> FALSE, segs |-> <<>>]>>,
     <<[abs |-> TRUE, segs |-> <<"opt", "mysqldump">>]>>,
     <<[abs |-> FALSE, segs |-> <<"bin", "mysqldump">>]>>}

\* line 1438: if (customPath)
Given(custom) == custom # <<>> /\ custom[1].segs # <<>>

\* faulty variant: the cache is never trusted
NeverExists(file) == FALSE

\* line 1455: fs.pathExists(targetPath)
PathExists(file) == file # "absent"

\* sha256 of an archive that is not the descriptor's
CorruptSha == "0badc0de"

\* faulty variant: the comparison with the descriptor's hash left out
NoChecksum(descriptor, actualSha) == FALSE

\* the test of line 1470
ChecksumMismatch(descriptor, actualSha) ==
    /\ descriptor.sha256 # ""
    /\ descriptor.sha256 # "REPLACE_WITH_OFFICIAL_SHA256"
    /\ actualSha # descriptor.sha256

InitBinary ==
    /\ platform \in Platforms
    /\ cache \in {"absent", "foreign"}
    /\ bpc = [c \in Calls |-> "idle"]
    /\ berr = [c \in Calls |-> ""]
    /\ bret = [c \in Calls |-> <<>>]
    /\ tmpDir = [c \in Calls |-> FALSE]
    /\ archiveSha = [c \in Calls |-> ""]
    /\ extractTool = [c \in Calls |-> "none"]
    /\ extracted = [c \in Calls |-> "none"]
    /\ bsteps = [c \in Calls |-> {}]
    /\ bcall = [c \in Calls |-> [custom |-> <<>>, exists |-> FALSE, cache0 |-> cache]]

Throw(c, e) ==
    /\ bpc' = [bpc EXCEPT ![c] = "failed"]
    /\ berr' = [berr EXCEPT ![c] = e]

\* lines 1438-1449: the override branch, else the descriptor lookup; a new
\* call starts with fresh locals and a temp directory of its own.  custom is
\* the customPath argument (<<>>: undefined), exists what pathExists finds
\* at the resolved override path.
Begin(c, custom, exists) ==
    /\ bpc[c] = "idle"
    /\ bcall' = [bcall EXCEPT ![c] = [custom |-> custom, exists |-> exists,
                                      cache0 |-> cache]]
    /\ tmpDir' = [tmpDir EXCEPT ![c] = FALSE]
    /\ archiveSha' = [archiveSha EXCEPT ![c] = ""]
    /\ extractTool' = [extractTool EXCEPT ![c] = "none"]
    /\ extracted' = [extracted EXCEPT ![c] = "none"]
    /\ bret' = [bret EXCEPT ![c] = IF Given(custom) /\ exists
                                   THEN <<PathResolve(custom[1])>>
                                   ELSE <<>>]
    /\ bsteps' = [bsteps EXCEPT ![c] = IF Given(custom) THEN {} ELSE {"lookup"}]
    /\ IF Given(custom)
       THEN IF exists
            THEN bpc' = [bpc EXCEPT ![c] = "done"] /\ berr' = [berr EXCEPT ![c] = ""]
            ELSE Throw(c, "overrideNotFound")
       ELSE IF resolveBinaryDescriptor(platform.platform, platform.arch) = <<>>
            THEN Throw(c, "unsupported")
            ELSE /\ bpc' = [bpc EXCEPT ![c] = "checkCache"]
                 /\ berr' = [berr EXCEPT ![c] = ""]
    /\ UNCHANGED <<platform, cache>>
    /\ UNCHANGED <<cfgVars, dumpVars, dlVars, probeVars, toolVars, secretVars, rcVars, wzVars, dsVars>>

\* lines 1451-1457
CheckCache(c) ==
    /\ bpc[c] = "checkCache"
    /\ IF PathExists(cache)
       THEN /\ bpc' = [bpc EXCEPT ![c] = "done"]
            /\ bret' = [bret EXCEPT ![c] = <<CachePath>>]
       ELSE /\ bpc' = [bpc EXCEPT ![c] = "mkdtemp"]
            /\ UNCHANGED bret
    /\ UNCHANGED <<platform, cache, berr, tmpDir, archiveSha, extractTool, extracted>>
    /\ bsteps' = [bsteps EXCEPT ![c] = @ \cup ({"cacheStat"})]
    /\ UNCHANGED bcall
    /\ UNCHANGED <<cfgVars, dumpVars, dlVars, probeVars, toolVars, secretVars, rcVars, wzVars, dsVars>>

\* lines 1460-1464
MakeTemp(c) ==
    /\ bpc[c] = "mkdtemp"
    /\ tmpDir' = [tmpDir EXCEPT ![c] = TRUE]
    /\ bpc' = [bpc EXCEPT ![c] = "download"]
    /\ UNCHANGED <<platform, cache, berr, bret, archiveSha, extractTool, extracted>>
    /\ bsteps' = [bsteps EXCEPT ![c] = @ \cup ({"ensureDir", "mkdtemp"})]
    /\ UNCHANGED bcall
    /\ UNCHANGED <<cfgVars, dumpVars, dlVars, probeVars, toolVars, secretVars, rcVars, wzVars, dsVars>>

\* line 1466: downloadToFile leaves an archive, the descriptor's or another
Download(c, intact) ==
    /\ bpc[c] = "download"
    /\ archiveSha' = [archiveSha EXCEPT
                         ![c] = IF intact THEN Descriptor.sha256 ELSE CorruptSha]
    /\ bpc' = [bpc EXCEPT ![c] = "verify"]
    /\ UNCHANGED <<platform, cache, berr, bret, tmpDir, extractTool, extracted>>
    /\ bsteps' = [bsteps EXCEPT ![c] = @ \cup ({"download"})]
    /\ UNCHANGED bcall
    /\ UNCHANGED <<cfgVars, dumpVars, dlVars, probeVars, toolVars, secretVars, rcVars, wzVars, dsVars>>

\* line 1466: downloadToFile rejects
DownloadFail(c) ==
    /\ bpc[c] = "download"
    /\ Throw(c, "download")
    /\ UNCHANGED <<platform, cache, bret, tmpDir, archiveSha, extractTool, extracted>>
    /\ bsteps' = [bsteps EXCEPT ![c] = @ \cup ({"download"})]
    /\ UNCHANGED bcall
    /\ UNCHANGED <<cfgVars, dumpVars, dlVars, probeVars, toolVars, secretVars, rcVars, wzVars, dsVars>>

\* lines 1468-1472
Verify(c) ==
    /\ bpc[c] = "verify"
    /\ IF ChecksumMismatch(Descriptor, archiveSha[c])
       THEN Throw(c, "checksum")
       ELSE bpc' = [bpc EXCEPT ![c] = "extract"] /\ UNCHANGED berr
    /\ UNCHANGED <<platform, cache, bret, tmpDir, archiveSha, extractTool, extracted>>
    /\ bsteps' = [bsteps EXCEPT ![c] = @ \cup ({"hash"})]
    /\ UNCHANGED bcall
    /\ UNCHANGED <<cfgVars, dumpVars, dlVars, probeVars, toolVars, secretVars, rcVars, wzVars, dsVars>>

\* lines 1475-1490: extract-zip, or tar spawned
ExtractStart(c) ==
    /\ bpc[c] = "extract"
    /\ extractTool' = [extractTool EXCEPT
                          ![c] = IF Descriptor.archiveType = "zip" THEN "zip" ELSE "tar"]
    /\ bpc' = [bpc EXCEPT ![c] = "extracting"]
    /\ UNCHANGED <<platform, cache, berr, bret, tmpDir, archiveSha, extracted>>
    /\ bsteps' = [bsteps EXCEPT ![c] = @ \cup ({"extract"})]
    /\ UNCHANGED bcall
    /\ UNCHANGED <<cfgVars, dumpVars, dlVars, probeVars, toolVars, secretVars, rcVars, wzVars, dsVars>>

\* the extraction ends: with the executable in the tree, without it, or failed
ExtractEnd(c, outcome) ==
    /\ bpc[c] = "extracting"
    /\ IF outcome = "failed"
       THEN /\ Throw(c, "extract")
            /\ extracted' = [extracted EXCEPT ![c] = "broken"]
       ELSE /\ extracted' = [extracted EXCEPT ![c] = outcome]
            /\ bpc' = [bpc EXCEPT ![c] = "find"]
            /\ UNCHANGED berr
    /\ UNCHANGED <<platform, cache, bret, tmpDir, archiveSha, extractTool>>
    /\ UNCHANGED <<bsteps, bcall>>
    /\ UNCHANGED <<cfgVars, dumpVars, dlVars, probeVars, toolVars, secretVars, rcVars, wzVars, dsVars>>

\* faulty variant: any extracted file is taken for the executable
AnyFile(tree) == tree # "none"

\* findBinary: a file named mysqldump or mysqldump.exe is in the tree
HasBinary(tree) == tree = "binary"

\* lines 1492-1495
Find(c) ==
    /\ bpc[c] = "find"
    /\ IF HasBinary(extracted[c])
       THEN bpc' = [bpc EXCEPT ![c] = "move"] /\ UNCHANGED berr
       ELSE Throw(c, "notFound")
    /\ UNCHANGED <<platform, cache, bret, tmpDir, archiveSha, extractTool, extracted>>
    /\ bsteps' = [bsteps EXCEPT ![c] = @ \cup ({"find"})]
    /\ UNCHANGED bcall
    /\ UNCHANGED <<cfgVars, dumpVars, dlVars, probeVars, toolVars, secretVars, rcVars, wzVars, dsVars>>

\* line 1497, fs-extra move with overwrite: remove(dest) ...
MoveRemove(c) ==
    /\ bpc[c] = "move"
    /\ cache' = "absent"
    /\ bpc' = [bpc EXCEPT ![c] = "rename"]
    /\ UNCHANGED <<platform, berr, bret, tmpDir, archiveSha, extractTool, extracted>>
    /\ bsteps' = [bsteps EXCEPT ![c] = @ \cup ({"move"})]
    /\ UNCHANGED bcall
    /\ UNCHANGED <<cfgVars, dumpVars, dlVars, probeVars, toolVars, secretVars, rcVars, wzVars, dsVars>>

\* ... then rename(src, dest); across devices the rename is a copy, which
\* shows at the destination before it is complete
MoveRename(c, sameDevice) ==
    /\ bpc[c] = "rename"
    /\ IF sameDevice
       THEN /\ cache' = "complete"
            /\ extracted' = [extracted EXCEPT ![c] = "other"]
            /\ bpc' = [bpc EXCEPT ![c] = "chmod"]
       ELSE /\ cache' = "partial"
            /\ bpc' = [bpc EXCEPT ![c] = "copying"]
            /\ UNCHANGED extracted
    /\ UNCHANGED <<platform, berr, bret, tmpDir, archiveSha, extractTool>>
    /\ UNCHANGED <<bsteps, bcall>>
    /\ UNCHANGED <<cfgVars, dumpVars, dlVars, probeVars, toolVars, secretVars, rcVars, wzVars, dsVars>>

\* the copy across devices completes and the source is removed; a copy whose
\* file was unlinked or replaced meanwhile leaves the path as it is
MoveCopied(c) ==
    /\ bpc[c] = "copying"
    /\ cache' = IF cache = "partial" THEN "complete" ELSE cache
    /\ extracted' = [extracted EXCEPT ![c] = "other"]
    /\ bpc' = [bpc EXCEPT ![c] = "chmod"]
    /\ UNCHANGED <<platform, berr, bret, tmpDir, archiveSha, extractTool>>
    /\ UNCHANGED <<bsteps, bcall>>
    /\ UNCHANGED <<cfgVars, dumpVars, dlVars, probeVars, toolVars, secretVars, rcVars, wzVars, dsVars>>

\* lines 1498-1500: chmod of a path with no file rejects (ENOENT)
Chmod(c) ==
    /\ bpc[c] = "chmod"
    /\ IF isWindows
       THEN /\ bpc' = [bpc EXCEPT ![c] = "cleanup"]
            /\ UNCHANGED <<cache, berr>>
       ELSE IF cache = "absent"
       THEN Throw(c, "chmod") /\ UNCHANGED cache
       ELSE /\ cache' = IF cache = "partial" THEN "partial" ELSE "exec"
            /\ bpc' = [bpc EXCEPT ![c] = "cleanup"]
            /\ UNCHANGED berr
    /\ UNCHANGED <<platform, bret, tmpDir, archiveSha, extractTool, extracted>>
    /\ bsteps' = [bsteps EXCEPT ![c] = @ \cup (IF isWindows THEN {} ELSE {"chmod"})]
    /\ UNCHANGED bcall
    /\ UNCHANGED <<cfgVars, dumpVars, dlVars, probeVars, toolVars, secretVars, rcVars, wzVars, dsVars>>

\* lines 1502-1503
Cleanup(c) ==
    /\ bpc[c] = "cleanup"
    /\ tmpDir' = [tmpDir EXCEPT ![c] = FALSE]
    /\ bpc' = [bpc EXCEPT ![c] = "done"]
    /\ bret' = [bret EXCEPT ![c] = <<CachePath>>]
    /\ UNCHANGED <<platform, cache, berr, archiveSha, extractTool, extracted>>
    /\ bsteps' = [bsteps EXCEPT ![c] = @ \cup ({"cleanup"})]
    /\ UNCHANGED bcall
    /\ UNCHANGED <<cfgVars, dumpVars, dlVars, probeVars, toolVars, secretVars, rcVars, wzVars, dsVars>>

\* line 1502: fs.remove(tmpDir) rejects
CleanupFail(c) ==
    /\ bpc[c] = "cleanup"
    /\ Throw(c, "cleanup")
    /\ UNCHANGED <<platform, cache, bret, tmpDir, archiveSha, extractTool, extracted>>
    /\ bsteps' = [bsteps EXCEPT ![c] = @ \cup {"cleanup"}]
    /\ UNCHANGED bcall
    /\ UNCHANGED <<cfgVars, dumpVars, dlVars, probeVars, toolVars, secretVars, rcVars, wzVars, dsVars>>

\* the caller has the result or the error and may call again
Return(c) ==
    /\ bpc[c] \in {"done", "failed"}
    /\ bpc' = [bpc EXCEPT ![c] = "idle"]
    /\ UNCHANGED <<platform, cache, berr, bret, tmpDir, archiveSha, extractTool,
                   extracted>>
    /\ UNCHANGED <<bsteps, bcall>>
    /\ UNCHANGED <<cfgVars, dumpVars, dlVars, probeVars, toolVars, secretVars, rcVars, wzVars, dsVars>>

\* the one call of a single flow
Solo == {1}

NextBinary ==
    \/ \E c \in Solo, custom \in CustomPaths, exists \in BOOLEAN : Begin(c, custom, exists)
    \/ \E c \in Solo : CheckCache(c)
    \/ \E c \in Solo : MakeTemp(c)
    \/ \E c \in Solo, intact \in BOOLEAN : Download(c, intact)
    \/ \E c \in Solo : DownloadFail(c)
    \/ \E c \in Solo : Verify(c)
    \/ \E c \in Solo : ExtractStart(c)
    \/ \E c \in Solo, outcome \in {"binary", "other", "failed"} : ExtractEnd(c, outcome)
    \/ \E c \in Solo : Find(c)
    \/ \E c \in Solo : MoveRemove(c)
    \/ \E c \in Solo, sameDevice \in BOOLEAN : MoveRename(c, sameDevice)
    \/ \E c \in Solo : MoveCopied(c)
    \/ \E c \in Solo : Chmod(c)
    \/ \E c \in Solo : Cleanup(c)
    \/ \E c \in Solo : CleanupFail(c)
    \/ \E c \in Solo : Return(c)

\* two calls, in one process or in two, on the same cache path
NextBinaryRace ==
    \/ \E c \in Calls, custom \in CustomPaths, exists \in BOOLEAN : Begin(c, custom, exists)
    \/ \E c \in Calls : CheckCache(c)
    \/ \E c \in Calls : MakeTemp(c)
    \/ \E c \in Calls, intact \in BOOLEAN : Download(c, intact)
    \/ \E c \in Calls : DownloadFail(c)
    \/ \E c \in Calls : Verify(c)
    \/ \E c \in Calls : ExtractStart(c)
    \/ \E c \in Calls, outcome \in {"binary", "other", "failed"} : ExtractEnd(c, outcome)
    \/ \E c \in Calls : Find(c)
    \/ \E c \in Calls : MoveRemove(c)
    \/ \E c \in Calls, sameDevice \in BOOLEAN : MoveRename(c, sameDevice)
    \/ \E c \in Calls : MoveCopied(c)
    \/ \E c \in Calls : Chmod(c)
    \/ \E c \in Calls : Cleanup(c)
    \/ \E c \in Calls : CleanupFail(c)
    \/ \E c \in Calls : Return(c)

(***************************************************************************)
(* Downloader (downloadToFile).  A URL is a host and a path number; a      *)
(* Location header is absolute (host and path) or relative (path only).    *)
(* A response is a status (0: none), a Location header or none, and a      *)
(* body.                                                                   *)
(***************************************************************************)
MAX_REDIRECTS == 5

Hosts == {"h1", "h2"}
Urls == [host : Hosts, n : 0..MaxHops]
Bodies == {"x", "y"}

OtherHost(h) == IF h = "h1" THEN "h2" ELSE "h1"

Rel(n) == [abs |-> FALSE, host |-> "", n |-> n]
Abs(h, n) == [abs |-> TRUE, host |-> h, n |-> n]

\* new URL(location, currentUrl)
Resolve(location, currentUrl) ==
    IF location.abs
    THEN [host |-> location.host, n |-> location.n]
    ELSE [host |-> currentUrl.host, n |-> location.n]

\* the URL the first call is made with
StartUrl == [host |-> "h1", n |-> 0]

\* the responses a server may give at url: redirects to the next path
\* (relative, or absolute on the other host) or to the URL itself, redirect
\* statuses without a Location, success, client errors and no status
Responses(url) ==
    {[status |-> 302, location |-> <<Rel(url.n)>>, body |-> "x"],
     [status |-> 302, location |-> <<>>, body |-> "x"],
     [status |-> 200, location |-> <<>>, body |-> "x"],
     [status |-> 200, location |-> <<>>, body |-> "y"],
     [status |-> 299, location |-> <<Rel(url.n)>>, body |-> "y"],
     [status |-> 400, location |-> <<>>, body |-> "x"],
     [status |-> 404, location |-> <<Rel(url.n)>>, body |-> "y"],
     [status |-> 0, location |-> <<>>, body |-> "x"]}
    \cup (IF url.n < MaxHops
          THEN {[status |-> 300, location |-> <<Rel(url.n + 1)>>, body |-> "x"],
                [status |-> 399, location |-> <<Abs(OtherHost(url.host), url.n + 1)>>,
                 body |-> "y"]}
          ELSE {})

\* line 22
IsRedirect(res) ==
    /\ res.status # 0
    /\ res.status >= 300
    /\ res.status < 400
    /\ res.location # <<>>

\* faulty variant: the bound tested one too late
OverMaxRedirects(redirects) == redirects > MAX_REDIRECTS

\* line 23
TooManyRedirects(redirects) == redirects >= MAX_REDIRECTS

\* faulty variant: 400 itself let through
BadStatusAbove(status) == status = 0 \/ status > 400

\* line 32
BadStatus(status) == status = 0 \/ status >= 400

\* faulty variant: the Location resolved against the URL the call was made
\* with, not against the URL that redirected
ResolveOnCallUrl(location, currentUrl) ==
    Resolve(location, IF dlRun = 1 THEN StartUrl ELSE dlPrev.target[1])

\* line 27
NextUrl(location, currentUrl) == Resolve(location, currentUrl)

NoRun == [target |-> <<>>, pc |-> "none", err |-> "", file |-> <<>>]

InitDownload ==
    /\ dlPc = "idle"
    /\ dlUrl = StartUrl
    /\ dlRedirects = 0
    /\ dlRequests = 0
    /\ dlHops = 0
    /\ dlResp = <<>>
    /\ dlErr = ""
    /\ dlFile = <<>>
    /\ dlFirst = <<>>
    /\ dlRun = 0
    /\ dlPrev = NoRun
    /\ served = [u \in Urls |-> <<>>]

\* lines 15-21 and 49: a call with a fresh destination; request(url) issues
\* the first https.get.  The first call is made with StartUrl; a second one
\* goes directly to the target of the first call's first redirect.
DlStart ==
    /\ dlPc = "idle"
    /\ \/ dlRun = 0 /\ dlUrl' = StartUrl
       \/ dlRun = 1 /\ dlPrev.target # <<>> /\ dlUrl' = dlPrev.target[1]
    /\ dlRun' = dlRun + 1
    /\ dlPc' = "await"
    /\ dlRedirects' = 0
    /\ dlRequests' = 1
    /\ dlHops' = 0
    /\ dlResp' = <<>>
    /\ dlErr' = ""
    /\ dlFile' = <<>>
    /\ dlFirst' = <<>>
    /\ UNCHANGED <<dlPrev, served>>
    /\ UNCHANGED <<cfgVars, dumpVars, binVars, probeVars, toolVars, secretVars, rcVars, wzVars, dsVars>>

\* lines 21-46, the response callback: res is what the server gives at dlUrl
DlResponse(res) ==
    /\ dlPc = "await"
    /\ served[dlUrl] \in {<<>>, <<res>>}
    /\ served' = [served EXCEPT ![dlUrl] = <<res>>]
    /\ dlResp' = <<res>>
    /\ IF IsRedirect(res)
       THEN /\ dlHops' = dlHops + 1
            /\ IF TooManyRedirects(dlRedirects)
               THEN /\ dlPc' = "failed"
                    /\ dlErr' = "redirects"
                    /\ UNCHANGED <<dlUrl, dlRedirects, dlRequests, dlFirst>>
               ELSE /\ dlUrl' = NextUrl(res.location[1], dlUrl)
                    /\ dlRedirects' = dlRedirects + 1
                    /\ dlRequests' = dlRequests + 1
                    /\ dlFirst' = IF dlHops = 0
                                  THEN <<NextUrl(res.location[1], dlUrl)>>
                                  ELSE dlFirst
                    /\ UNCHANGED <<dlPc, dlErr>>
       ELSE /\ IF BadStatus(res.status)
               THEN dlPc' = "failed" /\ dlErr' = "status"
               ELSE dlPc' = "opening" /\ dlErr' = dlErr
            /\ UNCHANGED <<dlUrl, dlRedirects, dlRequests, dlHops, dlFirst>>
    /\ UNCHANGED <<dlFile, dlRun, dlPrev>>
    /\ UNCHANGED <<cfgVars, dumpVars, binVars, probeVars, toolVars, secretVars, rcVars, wzVars, dsVars>>

\* line 47: the request fails before a response
DlRequestError ==
    /\ dlPc = "await"
    /\ dlPc' = "failed"
    /\ dlErr' = "network"
    /\ UNCHANGED <<dlUrl, dlRedirects, dlRequests, dlHops, dlResp, dlFile, dlFirst,
                   dlRun, dlPrev, served>>
    /\ UNCHANGED <<cfgVars, dumpVars, binVars, probeVars, toolVars, secretVars, rcVars, wzVars, dsVars>>

\* line 38: the write stream's open creates the destination file
DlOpen ==
    /\ dlPc = "opening"
    /\ dlFile' = <<[body |-> dlResp[1].body, complete |-> FALSE]>>
    /\ dlPc' = "writing"
    /\ UNCHANGED <<dlUrl, dlRedirects, dlRequests, dlHops, dlResp, dlErr, dlFirst,
                   dlRun, dlPrev, served>>
    /\ UNCHANGED <<cfgVars, dumpVars, binVars, probeVars, toolVars, secretVars, rcVars, wzVars, dsVars>>

\* lines 43-44: the body is piped, the stream finishes and is closed
DlFinish ==
    /\ dlPc = "writing"
    /\ dlFile' = <<[body |-> dlResp[1].body, complete |-> TRUE]>>
    /\ dlPc' = "done"
    /\ UNCHANGED <<dlUrl, dlRedirects, dlRequests, dlHops, dlResp, dlErr, dlFirst,
                   dlRun, dlPrev, served>>
    /\ UNCHANGED <<cfgVars, dumpVars, binVars, probeVars, toolVars, secretVars, rcVars, wzVars, dsVars>>

\* line 45: the open or a write of the file fails
DlFileError ==
    /\ dlPc \in {"opening", "writing"}
    /\ dlPc' = "failed"
    /\ dlErr' = "file"
    /\ UNCHANGED <<dlUrl, dlRedirects, dlRequests, dlHops, dlResp, dlFile, dlFirst,
                   dlRun, dlPrev, served>>
    /\ UNCHANGED <<cfgVars, dumpVars, binVars, probeVars, toolVars, secretVars, rcVars, wzVars, dsVars>>

\* the promise of downloadToFile settles; the caller keeps what the call did
DlReturn ==
    /\ dlPc \in {"done", "failed"}
    /\ dlRun = 1
    /\ dlPc' = "idle"
    /\ dlPrev' = [target |-> dlFirst, pc |-> dlPc, err |-> dlErr, file |-> dlFile]
    /\ UNCHANGED <<dlUrl, dlRedirects, dlRequests, dlHops, dlResp, dlErr, dlFile,
                   dlFirst, dlRun, served>>
    /\ UNCHANGED <<cfgVars, dumpVars, binVars, probeVars, toolVars, secretVars, rcVars, wzVars, dsVars>>

NextDownload ==
    \/ DlStart
    \/ \E res \in Responses(dlUrl) : DlResponse(res)
    \/ DlRequestError
    \/ DlOpen
    \/ DlFinish
    \/ DlFileError
    \/ DlReturn

(***************************************************************************)
(* Exporter invocation: testConnection (connectionTester.ts) and the       *)
(* argument vector and spawn options of runDump (dumpRunner.ts, lines      *)
(* 70-85).  A text is a sequence of tokens; an argument is a text.         *)
(***************************************************************************)
Passwords == {"s3cret", "hunter2"}

\* DatabaseConfig: port is optional (<<>> stands for undefined)
DbConfigs ==
    [name : {"shop", "crm"}, host : {"db1"}, username : {"root", "app"},
     port : {<<>>, <<0>>, <<3306>>}]

FlagLists == {<<>>, <<"--quick">>, <<"--single-transaction", "--quick">>}

TableLists == {<<>>, <<"logs">>, <<"sessions", "logs">>}

\* DumpRequest, the fields the invocation reads
Requests ==
    [db : DbConfigs, password : Passwords, flags : FlagLists,
     excludeTables : TableLists]

\* if (req.db.port): undefined and 0 are falsy
PortArg(r) ==
    IF r.db.port # <<>> /\ r.db.port[1] # 0
    THEN << <<"--port=", ToString(r.db.port[1])>> >>
    ELSE <<>>

HostUser(r) == << <<"--host=", r.db.host>>, <<"--user=", r.db.username>> >>

\* faulty variant: the credential on the command line
ArgsWithPassword(r) ==
    HostUser(r) \o << <<"--password=", r.password>> >> \o PortArg(r)
        \o << <<"--no-data">>, <<r.db.name>> >>

\* connectionTester.ts, lines 5-11
testConnectionArgs(r) ==
    HostUser(r) \o PortArg(r) \o << <<"--no-data">>, <<r.db.name>> >>

\* args.push(...req.flags)
FlagArgs(r) == [i \in 1..Len(r.flags) |-> <<r.flags[i]>>]

\* one --ignore-table=<db>.<table> per excluded table
IgnoreTableArgs(r) ==
    [i \in 1..Len(r.excludeTables) |->
        <<"--ignore-table=", r.db.name, ".", r.excludeTables[i]>>]

\* faulty variant: the database name pushed before the exclusions
NameBeforeExclusions(r) ==
    HostUser(r) \o PortArg(r) \o FlagArgs(r) \o << <<r.db.name>> >>
        \o IgnoreTableArgs(r)

\* dumpRunner.ts, lines 70-80
runDumpArgs(r) ==
    HostUser(r) \o PortArg(r) \o FlagArgs(r) \o IgnoreTableArgs(r)
        \o << <<r.db.name>> >>

\* env: { ...process.env, MYSQL_PWD: req.password }
spawnEnv(r) == [inherited |-> "process.env", MYSQL_PWD |-> r.password]

\* what the exporter writes to stderr, chunk by chunk
StderrChunks == {<<"\n">>, <<"Access denied", "\n">>}

Whitespace == {" ", "\n"}

RECURSIVE TrimStart(_)
TrimStart(s) ==
    IF s # <<>> /\ Head(s) \in Whitespace THEN TrimStart(Tail(s)) ELSE s

RECURSIVE TrimEnd(_)
TrimEnd(s) ==
    IF s # <<>> /\ s[Len(s)] \in Whitespace
    THEN TrimEnd(SubSeq(s, 1, Len(s) - 1))
    ELSE s

\* String.prototype.trim
Trim(s) == TrimEnd(TrimStart(s))

\* exit codes: <<>> stands for null (the exporter was killed by a signal)
ExitCodes == {<<0>>, <<1>>, <<>>}

CodeText(code) == IF code = <<>> THEN "null" ELSE ToString(code[1])

\* line 25: stderr.trim() || `mysqldump exited with code ${code}`
TestExitMessage(stderr, code) ==
    IF Trim(stderr) # <<>>
    THEN Trim(stderr)
    ELSE <<"mysqldump exited with code ", CodeText(code)>>

\* the three ways child_process.spawn can go: the process starts; the error
\* is reported by an 'error' event (ENOENT, EACCES, EAGAIN); spawn throws
\* (every other errno)
SpawnOutcomes == {"started", "errorEvent", "throws"}

SpawnErrorText(outcome) ==
    IF outcome = "throws" THEN <<"spawn", "E2BIG">> ELSE <<"spawn", "ENOENT">>

\* the request of the other components' runs
FirstRequest ==
    [db |-> [name |-> "shop", host |-> "db1", username |-> "root", port |-> <<>>],
     password |-> "s3cret", flags |-> <<>>, excludeTables |-> <<>>]

InitProbe ==
    /\ req \in Requests
    /\ spawns = <<>>
    /\ tcPc = "idle"
    /\ tcChild = "none"
    /\ tcCode = <<>>
    /\ tcWritten = <<>>
    /\ tcPipe = <<>>
    /\ tcStderr = <<>>
    /\ tcResult = <<>>

\* resolve and reject settle the promise once; later calls change nothing
Settle(v) ==
    /\ tcResult' = IF tcResult = <<>> THEN <<v>> ELSE tcResult
    /\ tcPc' = "settled"

\* lines 5-22 of connectionTester.ts, up to the return of spawn
TestStart(outcome) ==
    /\ tcPc = "idle"
    /\ spawns' = Append(spawns, [fn |-> "testConnection",
                                   args |-> testConnectionArgs(req),
                                   env |-> spawnEnv(req)])
    /\ IF outcome = "throws"
       THEN /\ Settle([kind |-> "rejected", error |-> SpawnErrorText(outcome)])
            /\ tcChild' = "none"
       ELSE /\ tcPc' = "waiting"
            /\ tcChild' = IF outcome = "started" THEN "alive" ELSE "failed"
            /\ UNCHANGED tcResult
    /\ UNCHANGED <<req, tcCode, tcWritten, tcPipe, tcStderr>>
    /\ UNCHANGED <<cfgVars, dumpVars, binVars, dlVars, toolVars, secretVars, rcVars, wzVars, dsVars>>

\* the exporter writes a chunk to its stderr
TestStderr(chunk) ==
    /\ tcChild = "alive"
    /\ Len(tcWritten) + Len(chunk) <= MaxStderr
    /\ tcWritten' = tcWritten \o chunk
    /\ tcPipe' = Append(tcPipe, chunk)
    /\ UNCHANGED <<req, spawns, tcPc, tcChild, tcCode, tcStderr, tcResult>>
    /\ UNCHANGED <<cfgVars, dumpVars, binVars, dlVars, toolVars, secretVars, rcVars, wzVars, dsVars>>

\* lines 19-21: child.stderr.on('data')
TestStderrData ==
    /\ tcPipe # <<>>
    /\ tcStderr' = tcStderr \o Head(tcPipe)
    /\ tcPipe' = Tail(tcPipe)
    /\ UNCHANGED <<req, spawns, tcPc, tcChild, tcCode, tcWritten, tcResult>>
    /\ UNCHANGED <<cfgVars, dumpVars, binVars, dlVars, toolVars, secretVars, rcVars, wzVars, dsVars>>

\* line 22: child.on('error')
SpawnError ==
    /\ tcChild = "failed"
    /\ tcChild' = "none"
    /\ Settle([kind |-> "resolved",
               value |-> [ok |-> FALSE, message |-> SpawnErrorText("errorEvent")]])
    /\ UNCHANGED <<req, spawns, tcCode, tcWritten, tcPipe, tcStderr>>
    /\ UNCHANGED <<cfgVars, dumpVars, binVars, dlVars, toolVars, secretVars, rcVars, wzVars, dsVars>>

\* lines 23-26: child.on('exit'); the stderr pipe may still hold data
TestExit(code) ==
    /\ tcChild = "alive"
    /\ tcChild' = "exited"
    /\ tcCode' = <<code>>
    /\ Settle([kind |-> "resolved",
               value |-> IF code = <<0>>
                         THEN [ok |-> TRUE, message |-> <<>>]
                         ELSE [ok |-> FALSE,
                               message |-> TestExitMessage(tcStderr, code)]])
    /\ UNCHANGED <<req, spawns, tcWritten, tcPipe, tcStderr>>
    /\ UNCHANGED <<cfgVars, dumpVars, binVars, dlVars, toolVars, secretVars, rcVars, wzVars, dsVars>>

\* dumpRunner.ts, lines 70-85: the argument vector and the spawn of runDump
\* (what follows the spawn is the dump runner above)
DumpSpawn ==
    /\ tcPc \in {"idle", "settled"}
    /\ \A i \in DOMAIN spawns : spawns[i].fn # "runDump"
    /\ spawns' = Append(spawns, [fn |-> "runDump",
                                   args |-> runDumpArgs(req),
                                   env |-> spawnEnv(req)])
    /\ UNCHANGED <<req, tcPc, tcChild, tcCode, tcWritten, tcPipe, tcStderr,
                   tcResult>>
    /\ UNCHANGED <<cfgVars, dumpVars, binVars, dlVars, toolVars, secretVars, rcVars, wzVars, dsVars>>

NextProbe ==
    \/ \E outcome \in SpawnOutcomes : TestStart(outcome)
    \/ \E chunk \in StderrChunks : TestStderr(chunk)
    \/ TestStderrData
    \/ SpawnError
    \/ \E code \in ExitCodes : TestExit(code)
    \/ DumpSpawn

(***************************************************************************)
(* Helpers: the flag catalog (flagsCatalog.ts), the default dump path      *)
(* (outputPaths.ts) and the secret store (secrets.ts).                     *)
(***************************************************************************)
NoCall == [fn |-> "none"]

\* flagsCatalog.ts: id and flag of each entry, in catalog order
CATALOG ==
    << [id |-> "single-transaction", flag |-> "--single-transaction"],
       [id |-> "quick", flag |-> "--quick"],
       [id |-> "routines", flag |-> "--routines"],
       [id |-> "triggers", flag |-> "--triggers"],
       [id |-> "events", flag |-> "--events"],
       [id |-> "set-gtid-off", flag |-> "--set-gtid-purged=OFF"],
       [id |-> "hex-blob", flag |-> "--hex-blob"],
       [id |-> "column-statistics", flag |-> "--column-statistics=0"],
       [id |-> "master-data", flag |-> "--master-data=2"],
       [id |-> "skip-lock-tables", flag |-> "--skip-lock-tables"],
       [id |-> "add-drop-table", flag |-> "--add-drop-table"],
       [id |-> "no-create-db", flag |-> "--no-create-db"],
       [id |-> "charset-utf8mb4", flag |-> "--default-character-set=utf8mb4"] >>

Range(s) == {s[i] : i \in DOMAIN s}

RECURSIVE FlagsOfIds(_)
\* faulty variant: the flags in the order the ids were selected
FlagsOfIds(ids) ==
    IF ids = <<>> THEN <<>>
    ELSE LET hit == SelectSeq(CATALOG, LAMBDA f : f.id = Head(ids))
         IN  [i \in DOMAIN hit |-> hit[i].flag] \o FlagsOfIds(Tail(ids))

\* lines 125-126: CATALOG.filter((f) => idSet.has(f.id)).map((f) => f.flag)
Picked(selectedIds) ==
    LET kept == SelectSeq(CATALOG, LAMBDA f : f.id \in Range(selectedIds))
    IN  [i \in DOMAIN kept |-> kept[i].flag]

\* line 127; customFlags is optional (<<>> stands for undefined)
resolveFlags(selectedIds, customFlags) ==
    IF customFlags # <<>> /\ Len(customFlags[1]) # 0
    THEN Picked(selectedIds) \o customFlags[1]
    ELSE Picked(selectedIds)

\* the ids a caller selects from: three of the catalog and one outside it
SelectableIds == {"quick", "single-transaction", "hex-blob", "no-such-flag"}

RECURSIVE SeqsUpTo(_, _)
SeqsUpTo(S, n) ==
    IF n = 0 THEN {<<>>}
    ELSE LET shorter == SeqsUpTo(S, n - 1)
         IN  shorter \cup {Append(s, x) : s \in shorter, x \in S}

CustomFlagLists ==
    {<<>>, << <<>> >>, << <<"--custom-flag">> >>, << <<"--where=1", "--quick">> >>}

\* paths.ts: getTempDumpRoot, path.join(os.tmpdir(), APP_NAME)
APP_NAME == "database-cli-dumper"

getTempDumpRoot == <<"tmp", APP_NAME>>

\* paths.ts: resolveDumpPath, path.join(base, ...parts)
resolveDumpPath(base, parts) == base \o parts

\* new Date().toISOString() at instant t, token by token
IsoString(t) ==
    <<"2026-11-02T10", ":", "20", ":", ToString(30 + t), ".", "000Z">>

\* outputPaths.ts, lines 4-6: replace(/[:.]/g, '-')
timestampString(t) ==
    [i \in DOMAIN IsoString(t) |->
        IF IsoString(t)[i] \in {":", "."} THEN "-" ELSE IsoString(t)[i]]

\* outputPaths.ts, lines 8-15; a path is its directory segments and the
\* tokens of its file name; rootOverride is optional
defaultDumpPath(env, aliasOrName, gz, rootOverride, t) ==
    LET safeEnv == IF env # "" THEN env ELSE "default"
        safeName == IF aliasOrName # "" THEN aliasOrName ELSE "database"
        root == IF rootOverride # <<>> /\ rootOverride[1] # <<>>
                THEN rootOverride[1] ELSE getTempDumpRoot
        dir == resolveDumpPath(root, <<safeEnv, safeName>>)
        filename == <<safeName, "-">> \o timestampString(t) \o <<".sql">>
                        \o (IF gz THEN <<".gz">> ELSE <<>>)
    IN  [dir |-> dir, base |-> filename]

\* the targets of the model: alias and gzipDefault are optional
Targets ==
    [environment : {"prod", "dev"}, name : {"shop"},
     alias : {<<>>, <<"">>, <<"store">>}, gzipDefault : {<<>>, <<TRUE>>, <<FALSE>>}]

RootOverrides == {<<>>, << <<>> >>, << <<"srv", "dumps">> >>}

\* App.tsx, beginDumpSetup: db.alias || db.name
AliasOrName(db) ==
    IF db.alias # <<>> /\ db.alias[1] # "" THEN db.alias[1] ELSE db.name

\* db.gzipDefault ?? false
GzipDefault(db) == IF db.gzipDefault # <<>> THEN db.gzipDefault[1] ELSE FALSE

\* secrets.ts: refs and secrets are texts
KeytarNs == <<"keytar", ":">>
PlaintextNs == <<"plaintext", ":">>

Secrets == {<<"s3cret">>, <<"pa", ":", "ss">>, <<"keytar", ":", "x">>}

StartsWith(s, prefix) ==
    Len(s) >= Len(prefix) /\ SubSeq(s, 1, Len(prefix)) = prefix

Slice(s, n) == SubSeq(s, n + 1, Len(s))

RECURSIVE UpToColon(_)
UpToColon(s) ==
    IF s = <<>> \/ Head(s) = ":" THEN <<>> ELSE <<Head(s)>> \o UpToColon(Tail(s))

\* existingRef.split(':')[1]: the text between the first and the second colon
SecondField(s) ==
    LET first == UpToColon(s)
    IN  IF Len(first) = Len(s) THEN <<>>
        ELSE UpToColon(Slice(s, Len(first) + 1))

\* randomUUID: the n-th value drawn
Uuid(n) == <<"uuid-", ToString(n)>>

\* lines 7-16: what loadKeytar returns, and caches
LoadKeytar ==
    IF keytarModule # "undefined" THEN keytarModule
    ELSE IF keytarInstalled THEN "loaded" ELSE "null"

\* faulty variant: the plaintext ref without its namespace
BareRef(password) == password

\* line 34
PlaintextRef(password) == PlaintextNs \o password

\* keytar.setPassword: one password per account
SetPassword(chain, account, password) ==
    {e \in chain : e.account # account}
        \cup {[account |-> account, password |-> password]}

\* keytar.getPassword: the account's password, or null
GetPassword(chain, account) ==
    IF \E e \in chain : e.account = account
    THEN [kind |-> "string",
          text |-> (CHOOSE e \in chain : e.account = account).password]
    ELSE [kind |-> "null", text |-> <<>>]

NoSecret == [kind |-> "undefined", text |-> <<>>]

NoSave == [ref |-> <<>>, storage |-> "none", secret |-> <<>>]

\* faulty variant: only the id is compared
MatchesId(d, idOrAlias) == d.id = idOrAlias

\* configStore.ts, line 80: the test of find
MatchesIdOrAlias(d, idOrAlias) == d.id = idOrAlias \/ d.alias = idOrAlias

\* Array.prototype.find: <<>> stands for undefined
findDatabase(dbs, idOrAlias) ==
    LET hits == SelectSeq(dbs, LAMBDA d : MatchesIdOrAlias(d, idOrAlias))
    IN  IF hits = <<>> THEN <<>> ELSE <<hits[1]>>

\* the strings a caller looks up: two ids (one of them also an alias) and a
\* string that is neither
LookupKeys == {"a", "b", "c"}

InitTools == call = NoCall

\* configStore.ts, lines 79-81
FindDatabase(dbs, idOrAlias) ==
    /\ call' = [fn |-> "findDatabase",
                in |-> [databases |-> dbs, idOrAlias |-> idOrAlias],
                out |-> findDatabase(dbs, idOrAlias)]
    /\ UNCHANGED <<cfgVars, dumpVars, binVars, dlVars, probeVars, secretVars, rcVars, wzVars, dsVars>>

InitSecrets ==
    /\ secretCall = NoCall
    /\ keytarInstalled \in BOOLEAN
    /\ keytarModule = "undefined"
    /\ keychain = {}
    /\ uuids = 0
    /\ lastSave = NoSave

\* flagsCatalog.ts, lines 124-128
ResolveFlags(selectedIds, customFlags) ==
    /\ call' = [fn |-> "resolveFlags",
                in |-> [selectedIds |-> selectedIds, customFlags |-> customFlags],
                out |-> resolveFlags(selectedIds, customFlags)]
    /\ UNCHANGED <<cfgVars, dumpVars, binVars, dlVars, probeVars, secretVars, rcVars, wzVars, dsVars>>

\* App.tsx, beginDumpSetup: the default output path of a target at instant t
DefaultDumpPath(db, rootOverride, t) ==
    /\ call' = [fn |-> "defaultDumpPath",
                in |-> [db |-> db, rootOverride |-> rootOverride, t |-> t],
                out |-> defaultDumpPath(db.environment, AliasOrName(db),
                                        GzipDefault(db), rootOverride, t)]
    /\ UNCHANGED <<cfgVars, dumpVars, binVars, dlVars, probeVars, secretVars, rcVars, wzVars, dsVars>>

\* secrets.ts, lines 26-38; existingRef is optional
SavePasswordCall(password, existingRef) ==
    /\ LET reuse == /\ existingRef # <<>>
                    /\ existingRef[1] # <<>>
                    /\ StartsWith(existingRef[1], KeytarNs)
           account == IF reuse THEN SecondField(existingRef[1])
                      ELSE Uuid(uuids + 1)
           result == IF LoadKeytar = "loaded"
                     THEN [ref |-> KeytarNs \o account, storage |-> "keytar"]
                     ELSE [ref |-> PlaintextRef(password), storage |-> "plaintext"]
       IN  /\ reuse \/ uuids < MaxUuids
           /\ uuids' = IF reuse THEN uuids ELSE uuids + 1
           /\ keychain' = IF LoadKeytar = "loaded"
                          THEN SetPassword(keychain, account, password)
                          ELSE keychain
           /\ secretCall' = [fn |-> "savePassword",
                             in |-> [password |-> password,
                                     existingRef |-> existingRef],
                             out |-> result]
           /\ lastSave' = [ref |-> result.ref, storage |-> result.storage,
                           secret |-> password]
    /\ keytarModule' = LoadKeytar
    /\ UNCHANGED keytarInstalled

\* secrets.ts, savePassword, called on its own
SavePassword(password, existingRef) ==
    /\ SavePasswordCall(password, existingRef)
    /\ UNCHANGED <<cfgVars, dumpVars, binVars, dlVars, probeVars, toolVars, rcVars, wzVars, dsVars>>

\* secrets.ts, lines 40-50
ResolvePassword(ref) ==
    /\ secretCall' =
           [fn |-> "resolvePassword",
            in |-> [ref |-> ref],
            out |-> IF ref = <<>> THEN NoSecret
                    ELSE IF StartsWith(ref, PlaintextNs)
                    THEN [kind |-> "string", text |-> Slice(ref, Len(PlaintextNs))]
                    ELSE IF StartsWith(ref, KeytarNs)
                    THEN IF LoadKeytar # "loaded" THEN NoSecret
                         ELSE GetPassword(keychain, Slice(ref, Len(KeytarNs)))
                    ELSE NoSecret]
    /\ keytarModule' = IF ref # <<>> /\ ~StartsWith(ref, PlaintextNs)
                          /\ StartsWith(ref, KeytarNs)
                       THEN LoadKeytar ELSE keytarModule
    /\ UNCHANGED <<keytarInstalled, keychain, uuids, lastSave>>
    /\ UNCHANGED <<cfgVars, dumpVars, binVars, dlVars, probeVars, toolVars, rcVars, wzVars, dsVars>>

\* the refs a caller resolves: the empty ref, refs of no namespace, a keytar
\* ref of an unknown account, and the ref the last save returned
RefInputs ==
    {<<>>, <<"vault", ":", "k">>, <<"keytar">>, <<"keytar", ":", "uuid-", "9">>,
     lastSave.ref}

ExistingRefs == {<<>>, << <<>> >>, <<lastSave.ref>>}

NextTools ==
    \/ \E ids \in SeqsUpTo(SelectableIds, MaxSelected), custom \in CustomFlagLists :
           ResolveFlags(ids, custom)
    \/ \E db \in Targets, root \in RootOverrides, t \in 0..MaxInstant :
           DefaultDumpPath(db, root, t)
    \/ \E dbs \in DbLists, key \in LookupKeys : FindDatabase(dbs, key)

NextSecrets ==
    \/ \E secret \in Secrets, existing \in ExistingRefs : SavePassword(secret, existing)
    \/ \E ref \in RefInputs : ResolvePassword(ref)

(***************************************************************************)
(* Two saveConfig calls on one config path (configStore.ts, lines 45-62),  *)
(* one action per await.  A path names an inode (0: no file); a write goes *)
(* to the inode its descriptor was opened on, wherever that inode is now.  *)
(***************************************************************************)
Savers == {1, 2}

\* the text each call writes: JSON.stringify of its configuration
TextOf(c) == IF c = 1 THEN "A" ELSE "B"

\* the length of a text, in blocks
TextLen(text) == IF text = "A" THEN 1 ELSE 2

Inodes == 1..3

NoFile == [text |-> "", len |-> 0, whole |-> TRUE]

\* what a file holds after a text is written at its start: the text, and
\* behind it what the file held beyond the text's length
Overwrite(file, text) ==
    IF file.len > TextLen(text)
    THEN [text |-> "mixed", len |-> file.len, whole |-> FALSE]
    ELSE [text |-> text, len |-> TextLen(text), whole |-> TRUE]

InitRace ==
    /\ rcInodes \in {[i \in Inodes |-> NoFile],
                     [i \in Inodes |-> IF i = 1
                                       THEN [text |-> "old", len |-> 1, whole |-> TRUE]
                                       ELSE NoFile]}
    /\ rcPaths = [cfg |-> IF rcInodes[1] = NoFile THEN 0 ELSE 1, tmp |-> 0]
    /\ rcUsed = IF rcInodes[1] = NoFile THEN 0 ELSE 1
    /\ rcPc = [c \in Savers |-> "idle"]
    /\ rcFd = [c \in Savers |-> 0]
    /\ rcErr = [c \in Savers |-> ""]

RcFail(c, err) ==
    /\ rcPc' = [rcPc EXCEPT ![c] = "failed"]
    /\ rcErr' = [rcErr EXCEPT ![c] = err]

RcOthers ==
    <<cfgVars, dumpVars, binVars, dlVars, probeVars, toolVars, secretVars,
      wzVars, dsVars>>

\* lines 46-51: the pathExists of the config path
RcExists(c) ==
    /\ rcPc[c] = "idle"
    /\ rcPc' = [rcPc EXCEPT ![c] = IF rcPaths.cfg # 0 THEN "backup" ELSE "write"]
    /\ UNCHANGED <<rcInodes, rcPaths, rcUsed, rcFd, rcErr>>
    /\ UNCHANGED RcOthers

\* lines 52-56: copyFile of the config path, which must still be there
RcBackup(c) ==
    /\ rcPc[c] = "backup"
    /\ IF rcPaths.cfg = 0
       THEN RcFail(c, "copyFile ENOENT")
       ELSE rcPc' = [rcPc EXCEPT ![c] = "write"] /\ UNCHANGED rcErr
    /\ UNCHANGED <<rcInodes, rcPaths, rcUsed, rcFd>>
    /\ UNCHANGED RcOthers

\* line 60: writeFile opens the temporary path, creating or truncating it
RcOpen(c) ==
    /\ rcPc[c] = "write"
    /\ IF rcPaths.tmp # 0
       THEN /\ rcFd' = [rcFd EXCEPT ![c] = rcPaths.tmp]
            /\ rcInodes' = [rcInodes EXCEPT ![rcPaths.tmp] =
                               [text |-> "", len |-> 0, whole |-> FALSE]]
            /\ UNCHANGED <<rcPaths, rcUsed>>
       ELSE /\ rcUsed' = rcUsed + 1
            /\ rcFd' = [rcFd EXCEPT ![c] = rcUsed + 1]
            /\ rcPaths' = [rcPaths EXCEPT !.tmp = rcUsed + 1]
            /\ rcInodes' = [rcInodes EXCEPT ![rcUsed + 1] =
                               [text |-> "", len |-> 0, whole |-> FALSE]]
    /\ rcPc' = [rcPc EXCEPT ![c] = "writing"]
    /\ UNCHANGED rcErr
    /\ UNCHANGED RcOthers

\* line 60: writeFile writes the text and closes
RcWrite(c) ==
    /\ rcPc[c] = "writing"
    /\ rcInodes' = [rcInodes EXCEPT ![rcFd[c]] = Overwrite(@, TextOf(c))]
    /\ rcPc' = [rcPc EXCEPT ![c] = "move"]
    /\ UNCHANGED <<rcPaths, rcUsed, rcFd, rcErr>>
    /\ UNCHANGED RcOthers

\* line 61, fs-extra move: the source must exist; remove(dest)
RcMoveRemove(c) ==
    /\ rcPc[c] = "move"
    /\ IF rcPaths.tmp = 0
       THEN RcFail(c, "move ENOENT") /\ UNCHANGED rcPaths
       ELSE /\ rcPaths' = [rcPaths EXCEPT !.cfg = 0]
            /\ rcPc' = [rcPc EXCEPT ![c] = "rename"]
            /\ UNCHANGED rcErr
    /\ UNCHANGED <<rcInodes, rcUsed, rcFd>>
    /\ UNCHANGED RcOthers

\* line 61, fs-extra move: rename(src, dest)
RcMoveRename(c) ==
    /\ rcPc[c] = "rename"
    /\ IF rcPaths.tmp = 0
       THEN RcFail(c, "rename ENOENT") /\ UNCHANGED rcPaths
       ELSE /\ rcPaths' = [cfg |-> rcPaths.tmp, tmp |-> 0]
            /\ rcPc' = [rcPc EXCEPT ![c] = "done"]
            /\ UNCHANGED rcErr
    /\ UNCHANGED <<rcInodes, rcUsed, rcFd>>
    /\ UNCHANGED RcOthers

NextRace ==
    \E c \in Savers :
        \/ RcExists(c)
        \/ RcBackup(c)
        \/ RcOpen(c)
        \/ RcWrite(c)
        \/ RcMoveRemove(c)
        \/ RcMoveRename(c)

(***************************************************************************)
(* The create/update wizard of App.tsx: the selection of a target, and     *)
(* handleFlagsDone (lines 235-299) with one action per await.  A target is *)
(* the part of a DatabaseConfig the handler decides: id, name, createdAt,  *)
(* updatedAt and passwordRef; instants are integers in ISO order.          *)
(***************************************************************************)
StoredTargets ==
    <<[id |-> 1, name |-> "shop", createdAt |-> 0, updatedAt |-> 0,
       passwordRef |-> PlaintextRef(<<"old">>)],
      [id |-> 2, name |-> "crm", createdAt |-> 0, updatedAt |-> 1,
       passwordRef |-> KeytarNs \o <<"acct">>]>>

WizardNames == {"shop", "wiki"}

\* the password field: left blank, or a secret
WizardPasswords == {<<>>, <<"s3cret">>}

NoDb == <<>>

\* faulty variant: every target is built as a new one
BuildAsNew(editing, name, instant, uuid) ==
    [id |-> uuid, name |-> name, passwordRef |-> <<>>,
     createdAt |-> instant, updatedAt |-> instant]

\* lines 237-257: the target built from the wizard's fields
BuildDb(editing, name, instant, uuid) ==
    [id |-> IF editing # <<>> THEN editing[1].id ELSE uuid,
     name |-> name,
     passwordRef |-> IF editing # <<>> THEN editing[1].passwordRef ELSE <<>>,
     createdAt |-> IF editing # <<>> THEN editing[1].createdAt ELSE instant,
     updatedAt |-> instant]

\* configStore.ts, lines 64-72, on targets
UpsertTarget(dbs, db) ==
    LET hit == {i \in DOMAIN dbs : dbs[i].id = db.id}
    IN  IF hit = {} THEN Append(dbs, db)
        ELSE LET idx == CHOOSE i \in hit : \A j \in hit : i <= j
             IN  [dbs EXCEPT ![idx] = db]

\* editingDb?.passwordRef as savePassword receives it
EditingRef(editing) == IF editing = <<>> THEN <<>> ELSE <<editing[1].passwordRef>>

InitWizard ==
    /\ wzDisk \in {SubSeq(StoredTargets, 1, n) : n \in 0..Len(StoredTargets)}
    /\ wzLoaded = FALSE
    /\ wzList = <<>>
    /\ wzEditing = <<>>
    /\ wzPc = "loading"
    /\ wzDb = NoDb
    /\ wzBefore = <<>>
    /\ wzPassword = <<>>
    /\ wzRunTest = TRUE
    /\ wzNow = 1
    /\ wzIds = Len(StoredTargets)
    /\ wzRuns = 0
    /\ wzMessage = ""

WzOthers == <<cfgVars, dumpVars, binVars, dlVars, probeVars, toolVars, rcVars, dsVars>>

\* lines 155-172: the configuration is loaded
WzLoad ==
    /\ wzPc = "loading"
    /\ wzList' = wzDisk
    /\ wzLoaded' = TRUE
    /\ wzPc' = "menu"
    /\ UNCHANGED <<wzDisk, wzEditing, wzDb, wzBefore, wzPassword, wzRunTest,
                   wzNow, wzIds, wzRuns, wzMessage>>
    /\ UNCHANGED <<WzOthers, secretVars>>

\* time passes between two runs of the wizard
WzTick ==
    /\ wzPc = "menu"
    /\ wzNow < MaxInstant + 2
    /\ wzNow' = wzNow + 1
    /\ UNCHANGED <<wzDisk, wzLoaded, wzList, wzEditing, wzPc, wzDb, wzBefore,
                   wzPassword, wzRunTest, wzIds, wzRuns, wzMessage>>
    /\ UNCHANGED <<WzOthers, secretVars>>

\* lines 198-211 and 421-422: the create wizard opens
WzCreate ==
    /\ wzPc = "menu"
    /\ wzRuns < MaxWizardRuns
    /\ wzEditing' = <<>>
    /\ wzRunTest' = TRUE
    /\ wzPc' = "wizard"
    /\ UNCHANGED <<wzDisk, wzLoaded, wzList, wzDb, wzBefore, wzPassword, wzNow,
                   wzIds, wzRuns, wzMessage>>
    /\ UNCHANGED <<WzOthers, secretVars>>

\* lines 505-507: a target is picked for update
WzUpdate(i) ==
    /\ wzPc = "menu"
    /\ wzRuns < MaxWizardRuns
    /\ i \in DOMAIN wzList
    /\ wzEditing' = <<wzList[i]>>
    /\ wzRunTest' = TRUE
    /\ wzPc' = "wizard"
    /\ UNCHANGED <<wzDisk, wzLoaded, wzList, wzDb, wzBefore, wzPassword, wzNow,
                   wzIds, wzRuns, wzMessage>>
    /\ UNCHANGED <<WzOthers, secretVars>>

\* line 548: the "run connection test" toggle
WzToggleTest ==
    /\ wzPc = "wizard"
    /\ wzRunTest' = ~wzRunTest
    /\ UNCHANGED <<wzDisk, wzLoaded, wzList, wzEditing, wzPc, wzDb, wzBefore,
                   wzPassword, wzNow, wzIds, wzRuns, wzMessage>>
    /\ UNCHANGED <<WzOthers, secretVars>>

\* lines 64-72 and 266: upsertDatabase, then saveConfig begins
WzUpsert(db) ==
    /\ wzList' = UpsertTarget(wzList, db)
    /\ wzDb' = <<db>>
    /\ wzPc' = "saving"

\* lines 235-266: handleFlagsDone up to its first await.  The password is
\* required when creating (line 190).
HandleFlagsDone(name, password) ==
    /\ wzPc = "wizard"
    /\ wzLoaded
    /\ wzEditing = <<>> => password # <<>>
    /\ wzBefore' = wzList
    /\ wzPassword' = password
    /\ wzRuns' = wzRuns + 1
    /\ wzIds' = IF wzEditing = <<>> THEN wzIds + 1 ELSE wzIds
    /\ LET db == BuildDb(wzEditing, name, wzNow, wzIds + 1)
       IN  IF password # <<>>
           THEN /\ wzDb' = <<db>>
                /\ wzPc' = "password"
                /\ UNCHANGED wzList
           ELSE WzUpsert(db)
    /\ UNCHANGED <<wzDisk, wzLoaded, wzEditing, wzRunTest, wzNow, wzMessage>>
    /\ UNCHANGED <<WzOthers, secretVars>>

\* lines 260-266: savePassword resolves and its ref is taken
WzPasswordSaved ==
    /\ wzPc = "password"
    /\ SavePasswordCall(wzPassword, EditingRef(wzEditing))
    /\ WzUpsert([wzDb[1] EXCEPT !.passwordRef = secretCall'.out.ref])
    /\ UNCHANGED <<wzDisk, wzLoaded, wzEditing, wzBefore, wzPassword, wzRunTest,
                   wzNow, wzIds, wzRuns, wzMessage>>
    /\ UNCHANGED WzOthers

\* lines 266-268 and 298: saveConfig resolves
WzSaved ==
    /\ wzPc = "saving"
    /\ wzDisk' = wzList
    /\ IF wzRunTest
       THEN wzPc' = "testing" /\ UNCHANGED wzMessage
       ELSE wzPc' = "message" /\ wzMessage' = "Configuration saved."
    /\ UNCHANGED <<wzLoaded, wzList, wzEditing, wzDb, wzBefore, wzPassword,
                   wzRunTest, wzNow, wzIds, wzRuns>>
    /\ UNCHANGED <<WzOthers, secretVars>>

\* line 266: saveConfig rejects, and the handler with it
WzSaveFailed ==
    /\ wzPc = "saving"
    /\ wzPc' = "rejected"
    /\ UNCHANGED <<wzDisk, wzLoaded, wzList, wzEditing, wzDb, wzBefore,
                   wzPassword, wzRunTest, wzNow, wzIds, wzRuns, wzMessage>>
    /\ UNCHANGED <<WzOthers, secretVars>>

\* lines 269-297: the connection test passes or fails
WzTested(ok) ==
    /\ wzPc = "testing"
    /\ wzPc' = "message"
    /\ wzMessage' = IF ok THEN "Configuration saved and connection test succeeded."
                   ELSE "Connection test failed"
    /\ UNCHANGED <<wzDisk, wzLoaded, wzList, wzEditing, wzDb, wzBefore,
                   wzPassword, wzRunTest, wzNow, wzIds, wzRuns>>
    /\ UNCHANGED <<WzOthers, secretVars>>

\* lines 175-180: a key leaves the message view
WzBack ==
    /\ wzPc = "message"
    /\ wzPc' = "menu"
    /\ UNCHANGED <<wzDisk, wzLoaded, wzList, wzEditing, wzDb, wzBefore,
                   wzPassword, wzRunTest, wzNow, wzIds, wzRuns, wzMessage>>
    /\ UNCHANGED <<WzOthers, secretVars>>

NextWizard ==
    \/ WzLoad
    \/ WzTick
    \/ WzCreate
    \/ \E i \in 1..(Len(StoredTargets) + MaxWizardRuns) : WzUpdate(i)
    \/ WzToggleTest
    \/ \E name \in WizardNames, password \in WizardPasswords :
           HandleFlagsDone(name, password)
    \/ WzPasswordSaved
    \/ WzSaved
    \/ WzSaveFailed
    \/ \E ok \in BOOLEAN : WzTested(ok)
    \/ WzBack

(***************************************************************************)
(* The dump flow of App.tsx: beginDumpSetup (lines 301-312), the dump      *)
(* setup view (lines 470-493) and runDumpFlow (lines 314-356).             *)
(***************************************************************************)
NoPath == [dir |-> <<>>, base |-> <<>>]

NoRequest == [gzip |-> FALSE, outputPath |-> NoPath]

\* a path whose file name ends in .sql.gz
EndsInSqlGz(path) ==
    /\ Len(path.base) >= 2
    /\ path.base[Len(path.base)] = ".gz"
    /\ path.base[Len(path.base) - 1] = ".sql"

InitDumpFlow ==
    /\ dsPc = "menu"
    /\ dsDb = <<>>
    /\ dsGzip = FALSE
    /\ dsPath = NoPath
    /\ dsPassword = FALSE
    /\ dsRunTest = TRUE
    /\ dsRequest = NoRequest

DsOthers ==
    <<cfgVars, dumpVars, binVars, dlVars, probeVars, toolVars, secretVars,
      rcVars, wzVars>>

\* lines 301-312; hasPassword: resolvePassword found the target's password
beginDumpSetup(db, rootOverride, t, hasPassword) ==
    /\ dsPc = "menu"
    /\ dsDb' = <<db>>
    /\ dsGzip' = GzipDefault(db)
    /\ dsPath' = defaultDumpPath(db.environment, AliasOrName(db), GzipDefault(db),
                                 rootOverride, t)
    /\ dsPassword' = hasPassword
    /\ dsRunTest' = TRUE
    /\ dsPc' = "dump-setup"
    /\ UNCHANGED dsRequest
    /\ UNCHANGED DsOthers

\* line 484: the gzip toggle of the dump setup view
DsToggleGzip ==
    /\ dsPc = "dump-setup"
    /\ dsGzip' = ~dsGzip
    /\ UNCHANGED <<dsPc, dsDb, dsPath, dsPassword, dsRunTest, dsRequest>>
    /\ UNCHANGED DsOthers

\* the "test connection first" toggle of the dump setup view
DsToggleTest ==
    /\ dsPc = "dump-setup"
    /\ dsRunTest' = ~dsRunTest
    /\ UNCHANGED <<dsPc, dsDb, dsGzip, dsPath, dsPassword, dsRequest>>
    /\ UNCHANGED DsOthers

\* lines 314-345: runDumpFlow builds the request, up to its next await
runDumpFlow ==
    /\ dsPc = "dump-setup"
    /\ dsDb # <<>>
    /\ IF ~dsPassword
       THEN dsPc' = "message" /\ UNCHANGED dsRequest
       ELSE /\ dsRequest' = [gzip |-> dsGzip, outputPath |-> dsPath]
            /\ dsPc' = IF dsRunTest THEN "testing" ELSE "dumping"
    /\ UNCHANGED <<dsDb, dsGzip, dsPath, dsPassword, dsRunTest>>
    /\ UNCHANGED DsOthers

\* lines 342-346 and 351-355: the connection test resolves
DsTested(ok) ==
    /\ dsPc = "testing"
    /\ dsPc' = IF ok THEN "dumping" ELSE "message"
    /\ dsRequest' = IF ok THEN dsRequest ELSE NoRequest
    /\ UNCHANGED <<dsDb, dsGzip, dsPath, dsPassword, dsRunTest>>
    /\ UNCHANGED DsOthers

\* lines 347-355: runDump(request) settles
DsDumped ==
    /\ dsPc = "dumping"
    /\ dsPc' = "message"
    /\ dsRequest' = NoRequest
    /\ UNCHANGED <<dsDb, dsGzip, dsPath, dsPassword, dsRunTest>>
    /\ UNCHANGED DsOthers

\* lines 175-180: a key leaves the message view
DsBack ==
    /\ dsPc = "message"
    /\ dsPc' = "menu"
    /\ UNCHANGED <<dsDb, dsGzip, dsPath, dsPassword, dsRunTest, dsRequest>>
    /\ UNCHANGED DsOthers

NextDumpFlow ==
    \/ \E db \in Targets, rootOverride \in RootOverrides, t \in 0..MaxInstant,
          hasPassword \in BOOLEAN :
           beginDumpSetup(db, rootOverride, t, hasPassword)
    \/ DsToggleGzip
    \/ DsToggleTest
    \/ runDumpFlow
    \/ \E ok \in BOOLEAN : DsTested(ok)
    \/ DsDumped
    \/ DsBack

(***************************************************************************)
(* Specifications: one per component, the other components at rest.        *)
(***************************************************************************)
RestConfig == InitConfig /\ cfgFile = <<>>
RestDump == InitDump
RestBinary ==
    InitBinary /\ platform = [platform |-> "linux", arch |-> "x64"] /\ cache = "absent"
RestDownload == InitDownload
RestProbe == InitProbe /\ req = FirstRequest
RestTools == InitTools
RestSecrets == InitSecrets /\ ~keytarInstalled
RestRace == InitRace /\ rcPaths.cfg = 0
RestWizard == InitWizard /\ wzDisk = <<>>
RestDumpFlow == InitDumpFlow

StartConfig ==
    /\ InitConfig /\ RestDump /\ RestBinary /\ RestDownload
    /\ RestProbe /\ RestTools /\ RestSecrets
    /\ RestRace /\ RestWizard /\ RestDumpFlow

SpecConfig == StartConfig /\ [][NextConfig]_vars

StartDump ==
    /\ RestConfig /\ InitDump /\ RestBinary /\ RestDownload
    /\ RestProbe /\ RestTools /\ RestSecrets
    /\ RestRace /\ RestWizard /\ RestDumpFlow

SpecDump == StartDump /\ [][NextDump]_vars

StartBinary ==
    /\ RestConfig /\ RestDump /\ InitBinary /\ RestDownload
    /\ RestProbe /\ RestTools /\ RestSecrets
    /\ RestRace /\ RestWizard /\ RestDumpFlow

SpecBinary == StartBinary /\ [][NextBinary]_vars

StartDownload ==
    /\ RestConfig /\ RestDump /\ RestBinary /\ InitDownload
    /\ RestProbe /\ RestTools /\ RestSecrets
    /\ RestRace /\ RestWizard /\ RestDumpFlow

SpecDownload == StartDownload /\ [][NextDownload]_vars

SpecBinaryRace == StartBinary /\ [][NextBinaryRace]_vars

StartProbe ==
    /\ RestConfig /\ RestDump /\ RestBinary /\ RestDownload
    /\ InitProbe /\ RestTools /\ RestSecrets
    /\ RestRace /\ RestWizard /\ RestDumpFlow

SpecProbe == StartProbe /\ [][NextProbe]_vars

StartTools ==
    /\ RestConfig /\ RestDump /\ RestBinary /\ RestDownload
    /\ RestProbe /\ InitTools /\ RestSecrets
    /\ RestRace /\ RestWizard /\ RestDumpFlow

SpecTools == StartTools /\ [][NextTools]_vars

StartSecrets ==
    /\ RestConfig /\ RestDump /\ RestBinary /\ RestDownload
    /\ RestProbe /\ RestTools /\ InitSecrets
    /\ RestRace /\ RestWizard /\ RestDumpFlow

SpecSecrets == StartSecrets /\ [][NextSecrets]_vars

StartRace ==
    /\ RestConfig /\ RestDump /\ RestBinary /\ RestDownload
    /\ RestProbe /\ RestTools /\ RestSecrets
    /\ InitRace /\ RestWizard /\ RestDumpFlow

SpecRace == StartRace /\ [][NextRace]_vars

\* the wizard saves passwords: the secret store starts in any of its states
StartWizard ==
    /\ RestConfig /\ RestDump /\ RestBinary /\ RestDownload
    /\ RestProbe /\ RestTools /\ InitSecrets
    /\ RestRace /\ InitWizard /\ RestDumpFlow

SpecWizard == StartWizard /\ [][NextWizard]_vars

StartDumpFlow ==
    /\ RestConfig /\ RestDump /\ RestBinary /\ RestDownload
    /\ RestProbe /\ RestTools /\ RestSecrets
    /\ RestRace /\ RestWizard /\ InitDumpFlow

SpecDumpFlow == StartDumpFlow /\ [][NextDumpFlow]_vars

Init ==
    /\ InitConfig /\ InitDump /\ InitBinary /\ InitDownload
    /\ InitProbe /\ InitTools /\ InitSecrets
    /\ InitRace /\ InitWizard /\ InitDumpFlow

Next ==
    \/ NextConfig \/ NextDump \/ NextBinary \/ NextDownload
    \/ NextProbe \/ NextTools \/ NextSecrets
    \/ NextRace \/ NextWizard \/ NextDumpFlow

Spec == Init /\ [][Next]_vars

(***************************************************************************)
(* Properties of the configuration store.                                  *)
(***************************************************************************)
Saving == savePc # "idle"

\* the complete text of the configuration being saved
NewContent == <<Full(Stringify(mem[1]))>>

\* C6: during saveConfig, at every step and after a failure at any step, the
\* file at the config path holds the complete previous content or the
\* complete new content.
C6_RealPathOldOrNew == Saving => cfgFile \in {saveOld, NewContent}

\* C7: when a file exists at the config path, a backup under the save's
\* timestamp with the pre-save content exists before the file at the config
\* path is replaced; when no file exists, no backup is made.
C7_BackupBeforeReplace ==
    Saving =>
        /\ (saveOld # <<>> /\ cfgFile # saveOld) =>
              (saveStamp # <<>> /\ backups[saveStamp[1]] = saveOld)
        /\ saveOld = <<>> => (saveStamp = <<>> /\ backups = saveBackups)

C7_Witness ==
    /\ savePc = "done"
    /\ saveOld # <<>>
    /\ cfgFile = NewContent
    /\ cfgFile # saveOld
    /\ saveStamp # <<>>
    /\ backups[saveStamp[1]] = saveOld

\* C8: loadConfig of a path with no file returns the current schema version
\* and an empty database list, whatever store calls came before.
C8_LoadMissingIsEmpty ==
    last.op = "loadMissing" =>
        /\ mem[1].version = SCHEMA_VERSION
        /\ Databases(mem[1]) = <<>>

\* C9: load, save, load yields the first load's ordered database list and the
\* current schema version, also for a file with a missing or older version.
C9_RoundTrip ==
    rt.stage = 3 =>
        /\ Databases(mem[1]) = rt.first
        /\ mem[1].version = SCHEMA_VERSION

C9_Witness ==
    /\ rt.stage = 3
    /\ rt.ver \in {<<>>, <<0>>}
    /\ Len(rt.first) = 2
    /\ rt.first[1].alias # Undefined
    /\ Databases(mem[1]) = rt.first

Members(dbs) == {dbs[i] : i \in 1..Len(dbs)}

\* C10 as stated: deleteDatabase(upsertDatabase(config, entry), entry.id) has
\* the count and the members of the configuration before the upsert.
C10_DeleteUndoesUpsert ==
    last.op = "upsertDelete" =>
        /\ Len(Databases(mem[1])) = Len(last.before)
        /\ Members(Databases(mem[1])) = Members(last.before)

\* C10 amended: the same, for a configuration that holds no entry with
\* entry.id before the upsert.
C10_DeleteUndoesFreshUpsert ==
    (last.op = "upsertDelete" /\ FindIndex(last.before, last.id) = 0) =>
        /\ Len(Databases(mem[1])) = Len(last.before)
        /\ Members(Databases(mem[1])) = Members(last.before)

C10_Witness ==
    /\ last.op = "upsertDelete"
    /\ FindIndex(last.before, last.id) = 0
    /\ Len(last.before) = 1
    /\ Databases(mem[1]) = last.before

\* C11: upsertDatabase replaces, at its place, the entry with the new entry's
\* id when there is one, and otherwise appends the entry at the end; every
\* other entry keeps its content and its position.
C11_UpsertReplacesOrAppends ==
    last.op = "upsert" =>
        LET before == last.before
            after  == Databases(mem[1])
            entry  == last.entry[1]
        IN  IF \E i \in 1..Len(before) : before[i].id = entry.id
            THEN /\ Len(after) = Len(before)
                 /\ \E i \in 1..Len(before) :
                       /\ before[i].id = entry.id
                       /\ after[i] = entry
                       /\ \A j \in 1..Len(before) : j # i => after[j] = before[j]
            ELSE /\ Len(after) = Len(before) + 1
                 /\ after[Len(after)] = entry
                 /\ \A j \in 1..Len(before) : after[j] = before[j]

C11_Witness ==
    /\ last.op = "upsert"
    /\ Len(last.before) = 2
    /\ last.before[2].id = last.id
    /\ last.before[1].id # last.id
    /\ last.before[2] # last.entry[1]
    /\ Databases(mem[1]) = <<last.before[1], last.entry[1]>>

\* the entries of s whose id is not id, in the order of s
RECURSIVE Without(_, _)
Without(s, id) ==
    IF s = <<>>
    THEN <<>>
    ELSE IF Head(s).id = id
         THEN Without(Tail(s), id)
         ELSE <<Head(s)>> \o Without(Tail(s), id)

\* C12: deleteDatabase removes the entries with the given id and keeps all
\* others in their order; when no entry has the id the list is unchanged.
C12_DeleteRemovesById ==
    last.op \in {"delete", "upsertDelete"} =>
        /\ Databases(mem[1]) = Without(last.pre, last.id)
        /\ \A i \in 1..Len(Databases(mem[1])) : Databases(mem[1])[i].id # last.id
        /\ (\A i \in 1..Len(last.pre) : last.pre[i].id # last.id) =>
              Databases(mem[1]) = last.pre

C12_Witness ==
    /\ last.op = "delete"
    /\ Len(last.pre) = 2
    /\ last.pre[1].id = last.id
    /\ last.pre[2].id = last.id
    /\ Databases(mem[1]) = <<>>

\* C13: loadConfig of an existing file returns the current schema version,
\* whatever version the file holds (missing, older or different).
C13_LoadStampsVersion ==
    last.op = "loadExisting" => mem[1].version = SCHEMA_VERSION

\* C14: after a successful saveConfig, the file at the config path and the
\* configuration that was saved both carry the current schema version.
C14_SaveStampsVersion ==
    last.op = "saved" =>
        /\ mem[1].version = SCHEMA_VERSION
        /\ cfgFile # <<>>
        /\ cfgFile[1].complete
        /\ cfgFile[1].text.version = <<SCHEMA_VERSION>>

C14_Witness ==
    /\ last.op = "saved"
    /\ rt.stage = 2
    /\ rt.ver = <<SCHEMA_VERSION + 1>>
    /\ mem[1].version = SCHEMA_VERSION
    /\ cfgFile[1].text.version = <<SCHEMA_VERSION>>

Distinct(dbs) ==
    \A i, j \in DOMAIN dbs : dbs[i].id = dbs[j].id => i = j

\* C35: a saveConfig that found a config file leaves every backup file that
\* was there when it began as it was, and adds one that holds the content
\* the config file had when the save began, also when an earlier save made
\* its backup at the same timestamp value.
C35_BackupsAreKept ==
    saveStamp # <<>> =>
        /\ \A t \in Stamps : saveBackups[t] # <<>> => backups[t] = saveBackups[t]
        /\ backups[saveStamp[1]] = saveOld

\* C36: upsertDatabase and deleteDatabase, called on a configuration whose
\* database ids are pairwise distinct, leave a configuration whose database
\* ids are pairwise distinct.
C36_IdsStayDistinct ==
    (/\ mem # <<>>
     /\ last.op \in {"upsert", "delete", "upsertDelete"}
     /\ Distinct(last.pre)) => Distinct(Databases(mem[1]))

C36_Witness ==
    /\ mem # <<>>
    /\ last.op = "upsert"
    /\ Len(last.pre) = 2
    /\ Distinct(last.pre)
    /\ last.id = last.pre[2].id
    /\ Databases(mem[1])[2] # last.pre[2]

(***************************************************************************)
(* Properties of the binary manager.                                       *)
(***************************************************************************)
\* the call has downloaded an archive whose hash is not the descriptor's and
\* is past the comparison
Mismatched(c) ==
    /\ archiveSha[c] # ""
    /\ archiveSha[c] # Descriptor.sha256
    /\ bpc[c] # "verify"

\* C1: when the hash of the downloaded archive differs from the descriptor's,
\* ensureBinary fails with the checksum error, neither extraction (zip or
\* tar) has started, and no file exists at the cache path.
C1_MismatchFailsBeforeExtraction ==
    \A c \in Solo :
        Mismatched(c) =>
            /\ bpc[c] \in {"failed", "idle"}
            /\ berr[c] = "checksum"
            /\ extractTool[c] = "none"
            /\ extracted[c] = "none"
            /\ cache = "absent"

C1_Witness ==
    /\ bpc[1] = "failed"
    /\ berr[1] = "checksum"
    /\ archiveSha[1] = CorruptSha
    /\ tmpDir[1]
    /\ cache = "absent"

\* the call has touched nothing: no directory made, nothing downloaded,
\* hashed or extracted, and the file at the cache path as it was
Untouched(c) ==
    /\ ~tmpDir[c]
    /\ archiveSha[c] = ""
    /\ extractTool[c] = "none"
    /\ extracted[c] = "none"
    /\ cache = bcall[c].cache0

\* the call was made without an override and has looked the descriptor up
Plain(c) == ~Given(bcall[c].custom) /\ "lookup" \in bsteps[c]

\* C18: with an override path, ensureBinary fails with the
\* override-not-found error when nothing exists at the path and otherwise
\* returns the supplied path verbatim; either way it takes no step of the
\* download flow and leaves the cache path alone.
C18_OverrideReturnedVerbatim ==
    \A c \in Solo :
        Given(bcall[c].custom) =>
            /\ IF bcall[c].exists
               THEN berr[c] = "" /\ bret[c] = bcall[c].custom
               ELSE berr[c] = "overrideNotFound" /\ bret[c] = <<>>
            /\ bsteps[c] = {}
            /\ Untouched(c)

\* C19 as stated: without an override and with a file at the cache path,
\* ensureBinary returns the cache path and downloads, hashes, extracts and
\* modifies nothing.
C19_CacheHitReturns ==
    \A c \in Solo :
        (Plain(c) /\ bcall[c].cache0 # "absent") =>
            /\ Untouched(c)
            /\ bsteps[c] \subseteq {"lookup", "cacheStat"}
            /\ bpc[c] # "checkCache" => (berr[c] = "" /\ bret[c] = <<CachePath>>)

\* C19 amended: the same, on a platform the catalog has a descriptor for.
C19_SupportedCacheHitReturns ==
    \A c \in Solo :
        (/\ Plain(c)
         /\ bcall[c].cache0 # "absent"
         /\ resolveBinaryDescriptor(platform.platform, platform.arch) # <<>>) =>
            /\ Untouched(c)
            /\ bsteps[c] \subseteq {"lookup", "cacheStat"}
            /\ bpc[c] # "checkCache" => (berr[c] = "" /\ bret[c] = <<CachePath>>)

C19_Witness ==
    /\ platform.platform = "win32"
    /\ Plain(1)
    /\ bcall[1].cache0 = "foreign"
    /\ bpc[1] = "done"
    /\ bret[1] = <<CachePath>>
    /\ bsteps[1] = {"lookup", "cacheStat"}
    /\ cache = "foreign"

\* C20: without an override, on a platform the catalog has no descriptor
\* for, ensureBinary fails with the unsupported-platform error, having made
\* no directory, downloaded nothing and left the cache path alone.
C20_UnsupportedFailsFirst ==
    \A c \in Solo :
        (Plain(c) /\ Matching(platform.platform, platform.arch) = <<>>) =>
            /\ bpc[c] \in {"failed", "idle"}
            /\ berr[c] = "unsupported"
            /\ bret[c] = <<>>
            /\ bsteps[c] = {"lookup"}
            /\ Untouched(c)

C20_Witness ==
    /\ platform.platform = "freebsd"
    /\ Plain(1)
    /\ bpc[1] = "failed"
    /\ berr[1] = "unsupported"
    /\ cache = "foreign"
    /\ ~tmpDir[1]

\* C21: once ensureBinary has made its temp directory, the directory is gone
\* when the call ends, on success and on every failure, and a failure to
\* remove it does not change the outcome of the call.
C21_TempDirRemoved ==
    \A c \in Solo :
        (bpc[c] \in {"done", "failed"} /\ "mkdtemp" \in bsteps[c]) =>
            /\ ~tmpDir[c]
            /\ berr[c] # "cleanup"

\* both calls missed the cache and went on to download, and both archives
\* are the descriptor's
Racing ==
    \A c \in Calls :
        /\ Plain(c)
        /\ "mkdtemp" \in bsteps[c]
        /\ archiveSha[c] = Descriptor.sha256

\* the errors the environment may raise in a call whatever the other does
EnvironmentErrors == {"download", "extract", "notFound", "cleanup"}

\* C22: two calls that resolve the same missing cache path with a correct
\* archive both return the cache path without error, and when both have
\* ended the cache path holds the complete executable.
C22_RaceIsBenign ==
    Racing =>
        /\ \A c \in Calls : bpc[c] = "failed" => berr[c] \in EnvironmentErrors
        /\ (\A c \in Calls : bpc[c] = "done") =>
              /\ cache \in {"complete", "exec"}
              /\ \A c \in Calls : bret[c] = <<CachePath>>

\* C23: a failed extraction, or an archive without a file named mysqldump or
\* mysqldump.exe, makes ensureBinary fail with the extraction error or the
\* not-found error, and no file is created at the cache path.
C23_NoBinaryNoCacheFile ==
    \A c \in Solo :
        /\ extracted[c] = "broken" =>
              /\ bpc[c] \in {"failed", "idle"}
              /\ berr[c] = "extract"
              /\ cache = "absent"
        /\ (extracted[c] = "other" /\ "find" \in bsteps[c] /\ "move" \notin bsteps[c]) =>
              /\ bpc[c] \in {"failed", "idle"}
              /\ berr[c] = "notFound"
              /\ cache = "absent"
        /\ berr[c] \in {"extract", "notFound"} => extracted[c] \in {"broken", "other"}

C23_Witness ==
    /\ bpc[1] = "failed"
    /\ berr[1] = "notFound"
    /\ extractTool[1] = "tar"
    /\ extracted[1] = "other"
    /\ cache = "absent"

InCatalog(p) ==
    \E i \in DOMAIN BINARY_MAP :
        BINARY_MAP[i].platform = p.platform /\ BINARY_MAP[i].arch = p.arch

\* C28: resolveBinaryDescriptor returns, for the platform and architecture
\* of every catalog entry, that entry, whose version is the pinned version;
\* no two entries have the same platform and architecture; and a call on a
\* platform outside the catalog finds no descriptor.
C28_OneDescriptorPerPlatform ==
    /\ \A i \in DOMAIN BINARY_MAP :
           /\ resolveBinaryDescriptor(BINARY_MAP[i].platform, BINARY_MAP[i].arch)
                  = <<BINARY_MAP[i]>>
           /\ BINARY_MAP[i].version = PINNED_MYSQL_VERSION
    /\ \A i, j \in DOMAIN BINARY_MAP :
           (BINARY_MAP[i].platform = BINARY_MAP[j].platform
                /\ BINARY_MAP[i].arch = BINARY_MAP[j].arch) => i = j
    /\ \A c \in Solo :
           "lookup" \in bsteps[c] =>
               LET d == resolveBinaryDescriptor(platform.platform, platform.arch)
               IN  IF InCatalog(platform)
                   THEN /\ d # <<>>
                        /\ d[1].platform = platform.platform
                        /\ d[1].arch = platform.arch
                        /\ d[1].version = PINNED_MYSQL_VERSION
                        /\ berr[c] # "unsupported"
                   ELSE d = <<>> /\ berr[c] = "unsupported"

C28_Witness ==
    /\ platform = [platform |-> "darwin", arch |-> "x64"]
    /\ "cacheStat" \in bsteps[1]

\* C32: in every state, also while ensureBinary calls are in progress and
\* after one has failed, the cache path holds nothing, or a file that was
\* there before the program ran, or the complete executable of a verified
\* archive, marked executable unless the platform is Windows.
C32_CacheAbsentOrFinished ==
    \/ cache \in {"absent", "foreign", "exec"}
    \/ isWindows /\ cache = "complete"

(***************************************************************************)
(* Properties of the dump runner.                                          *)
(***************************************************************************)
\* C2: when the exporter exits with a nonzero code, runDump rejects; once
\* the rejection is delivered no file exists at the destination path, and
\* the message is the captured stderr when there is any, else the exit-code
\* message.
C2_NonzeroExitRejectsClean ==
    (child = "exited" /\ exitCode # 0 /\ streamErr = "none") =>
        /\ promise # "resolved"
        /\ promise = "rejected" =>
              /\ ~fileExists
              /\ rejMsg = IF rejCaptured > 0 THEN "stderr" ELSE "exitcode"

\* C3: when the output stream or the gzip stream has an error, the error
\* reaches the handler, which stops the progress reporter; when the handler
\* is through, the destination file is deleted and runDump has rejected.
C3_StreamErrorCleansUp ==
    streamErr # "none" =>
        /\ ~crashed
        /\ hPipe # "idle"
        /\ ~progress
        /\ hPipe = "done" => (~fileExists /\ promise = "rejected")

\* C4: when the exporter fails to spawn, runDump rejects with the spawn
\* error and no file is left at the destination path, however the output
\* stream's open and close interleave with the deletion.
C4_SpawnFailureLeavesNoFile ==
    (child = "spawnfail" /\ streamErr = "none" /\ promise # "pending") =>
        /\ promise = "rejected"
        /\ rejMsg = "spawn"
        /\ ~fileExists

\* C5: when runDump succeeds without compression, the returned size is the
\* number of bytes the exporter wrote to its stdout, however the exit event
\* interleaves with the delivery and the flushing of the stdout data.
C5_SizeIsBytesWritten ==
    (promise = "resolved" /\ ~gzip) => resSize = produced

\* C33: every failure inside runDump reaches the caller as a rejection of
\* the returned promise: no 'error' event goes without a listener, and no
\* handler of runDump throws outside the promise (which would leave an
\* unhandled rejection, and the promise pending for an exit that failed).
C33_FailuresAreRejections ==
    /\ ~crashed
    /\ hExit # "thrown"

(***************************************************************************)
(* Properties of the downloader.                                           *)
(***************************************************************************)
\* the call has its final response: one that is not a redirect
FinalResponse == dlResp # <<>> /\ ~IsRedirect(dlResp[1])

\* C15: downloadToFile follows at most MAX_REDIRECTS redirects and then
\* downloads from the final URL; at the sixth redirect response it fails
\* with the too-many-redirects error, and a seventh request is never made.
C15_RedirectBound ==
    /\ dlRequests <= MAX_REDIRECTS + 1
    /\ dlHops <= MAX_REDIRECTS + 1
    /\ dlErr = "redirects" <=> dlHops = MAX_REDIRECTS + 1
    /\ dlRun > 0 => dlRedirects = dlRequests - 1
    /\ (FinalResponse /\ ~BadStatus(dlResp[1].status)) =>
          /\ dlErr \in {"", "file"}
          /\ dlResp = served[dlUrl]
          /\ dlPc \in {"writing", "done"} => dlFile[1].body = served[dlUrl][1].body

C15_Witness ==
    /\ dlPc = "done"
    /\ dlHops = MAX_REDIRECTS
    /\ dlRequests = MAX_REDIRECTS + 1
    /\ dlUrl.n = MAX_REDIRECTS
    /\ dlFile = <<[body |-> served[dlUrl][1].body, complete |-> TRUE]>>

\* C16: when the final response has no status or a status of 400 or more,
\* downloadToFile fails with the status error and the destination file is
\* not created.
C16_BadStatusFails ==
    (FinalResponse /\ (dlResp[1].status = 0 \/ dlResp[1].status >= 400)) =>
        /\ dlPc \in {"failed", "idle"}
        /\ dlErr = "status"
        /\ dlFile = <<>>

C16_Witness ==
    /\ dlPc = "failed"
    /\ dlErr = "status"
    /\ dlResp[1].status = 400
    /\ dlHops = 1
    /\ dlFile = <<>>

\* neither the first call nor the direct one met a network or file error
NoFault == dlErr \notin {"network", "file"} /\ dlPrev.err \notin {"network", "file"}

\* the direct call to the first call's redirect target has ended
DirectEnded == dlRun = 2 /\ dlPc \in {"done", "failed"}

\* C17 as stated: a download whose first response is a redirect writes to
\* the destination exactly the bytes a direct request to the redirect target
\* writes.
C17_RedirectSameAsDirect ==
    (DirectEnded /\ NoFault) => dlPrev.file = dlFile

\* C17 amended: the same, for a download that succeeds.
C17_SucceededRedirectSameAsDirect ==
    (DirectEnded /\ NoFault /\ dlPrev.pc = "done") =>
        /\ dlPc = "done"
        /\ dlPrev.file = dlFile

C17_Witness ==
    /\ DirectEnded
    /\ dlPrev.pc = "done"
    /\ dlPrev.target[1].host = "h2"
    /\ dlHops = 1
    /\ dlUrl.host = "h2"
    /\ dlPc = "done"
    /\ dlFile = dlPrev.file
    /\ dlFile[1].complete

(***************************************************************************)
(* Properties of the exporter invocation.                                  *)
(***************************************************************************)
\* the text the exporter wrote to its stderr, trimmed, or the exit-code
\* message when that is blank
ExpectedFailure(code) ==
    IF Trim(tcWritten) # <<>>
    THEN Trim(tcWritten)
    ELSE <<"mysqldump exited with code ", CodeText(code)>>

\* C24: testConnection always ends with a result value, never an exception:
\* {ok: true} when the exporter exited with code 0; {ok: false} with the
\* trimmed stderr of the exporter, or the exit-code message when that is
\* blank, when it exited otherwise; {ok: false} with the spawn error text
\* when the exporter could not be spawned.
C24_AlwaysAResult ==
    tcPc = "settled" =>
        /\ tcResult[1].kind = "resolved"
        /\ tcCode = << <<0>> >> =>
               tcResult[1].value = [ok |-> TRUE, message |-> <<>>]
        /\ (tcCode # <<>> /\ tcCode # << <<0>> >>) =>
               tcResult[1].value =
                   [ok |-> FALSE, message |-> ExpectedFailure(tcCode[1])]
        /\ tcCode = <<>> =>
               tcResult[1].value =
                   [ok |-> FALSE, message |-> SpawnErrorText("errorEvent")]

ArgsOf(fn, r) ==
    IF fn = "testConnection" THEN testConnectionArgs(r) ELSE runDumpArgs(r)

\* C25: the argument vector testConnection and runDump pass to the exporter
\* is the one the same request with any other password gives, no argument
\* holds the password, and MYSQL_PWD of the environment is the password.
C25_PasswordOnlyInEnvironment ==
    \A i \in DOMAIN spawns :
        /\ \A pw \in Passwords :
               spawns[i].args = ArgsOf(spawns[i].fn, [req EXCEPT !.password = pw])
        /\ \A k \in DOMAIN spawns[i].args :
               req.password \notin Range(spawns[i].args[k])
        /\ spawns[i].env.MYSQL_PWD = req.password

C25_Witness ==
    /\ Len(spawns) = 2
    /\ spawns[1].fn = "testConnection"
    /\ spawns[2].fn = "runDump"
    /\ req.password = "hunter2"
    /\ spawns[2].env.MYSQL_PWD = "hunter2"

\* C26: runDump's arguments are, in this order, --host=H, --user=U, --port=P
\* (present only when a port is set, and whenever it is set and not 0), the
\* flags of the request in their order, one --ignore-table=DB.T per
\* excluded table in their order, and the database name as the last one.
C26_ArgumentOrder ==
    \A i \in DOMAIN spawns :
        spawns[i].fn = "runDump" =>
            LET a == spawns[i].args
                p == IF \E k \in DOMAIN a : Head(a[k]) = "--port=" THEN 1 ELSE 0
                nf == Len(req.flags)
                nt == Len(req.excludeTables)
            IN  /\ Len(a) = 3 + p + nf + nt
                /\ a[1] = <<"--host=", req.db.host>>
                /\ a[2] = <<"--user=", req.db.username>>
                /\ p = 1 => /\ req.db.port # <<>>
                            /\ a[3] = <<"--port=", ToString(req.db.port[1])>>
                /\ (req.db.port # <<>> /\ req.db.port[1] # 0) => p = 1
                /\ \A k \in 1..nf : a[2 + p + k] = <<req.flags[k]>>
                /\ \A k \in 1..nt :
                       a[2 + p + nf + k] =
                           <<"--ignore-table=", req.db.name, ".", req.excludeTables[k]>>
                /\ a[Len(a)] = <<req.db.name>>

C26_Witness ==
    /\ \E i \in DOMAIN spawns : spawns[i].fn = "runDump" /\ Len(spawns[i].args) = 8
    /\ req.db.port = <<3306>>
    /\ req.flags = <<"--single-transaction", "--quick">>
    /\ req.excludeTables = <<"sessions", "logs">>

(***************************************************************************)
(* Properties of the helpers.                                              *)
(***************************************************************************)
\* C27: resolveFlags returns the flags of the catalog entries whose id is
\* among the selected ids, each once and in catalog order, whatever the
\* order and the repetitions of the selected ids and whatever other ids
\* they hold, followed by the custom flags as given; without custom flags
\* (undefined or an empty list) it returns the catalog flags only.
C27_CatalogOrderThenCustom ==
    call.fn = "resolveFlags" =>
        LET sel == call.in.selectedIds
            custom == IF call.in.customFlags = <<>> THEN <<>>
                      ELSE call.in.customFlags[1]
            hits == {i \in DOMAIN CATALOG :
                        \E k \in DOMAIN sel : sel[k] = CATALOG[i].id}
            n == Cardinality(hits)
        IN  /\ Len(call.out) = n + Len(custom)
            /\ \E pos \in [1..n -> hits] :
                   /\ \A a, b \in 1..n : a < b => pos[a] < pos[b]
                   /\ \A a \in 1..n : call.out[a] = CATALOG[pos[a]].flag
            /\ \A k \in 1..Len(custom) : call.out[n + k] = custom[k]

C27_Witness ==
    /\ call.fn = "resolveFlags"
    /\ call.in.selectedIds = <<"quick", "no-such-flag", "single-transaction">>
    /\ call.in.customFlags = << <<"--where=1", "--quick">> >>
    /\ call.out = <<"--single-transaction", "--quick", "--where=1", "--quick">>

\* C31: findDatabase returns the first entry of the list, in list order,
\* whose id or whose alias is the given string, and undefined when no entry
\* has that id or that alias.
C31_FirstByIdOrAlias ==
    call.fn = "findDatabase" =>
        LET dbs == call.in.databases
            key == call.in.idOrAlias
            hit == {i \in DOMAIN dbs : dbs[i].id = key \/ dbs[i].alias = key}
        IN  IF hit = {}
            THEN call.out = <<>>
            ELSE \E i \in hit :
                    /\ \A j \in hit : i <= j
                    /\ call.out = <<dbs[i]>>

C31_Witness ==
    /\ call.fn = "findDatabase"
    /\ call.in.idOrAlias = "b"
    /\ call.in.databases = <<[id |-> "a", alias |-> "b"], [id |-> "b", alias |-> Undefined]>>
    /\ call.out = <<[id |-> "a", alias |-> "b"]>>

\* C29: the default dump path of a target is <root>/<environment>/<alias or
\* name>/<name>-<timestamp>.sql, with .gz appended exactly when compression
\* is requested: the directory is the alias when one is set and the name
\* otherwise, the file name starts with the database name, and the root is
\* the override when one is given and the temp dump root otherwise.
C29_DefaultDumpPath ==
    call.fn = "defaultDumpPath" =>
        LET db == call.in.db
            over == call.in.rootOverride
            root == IF over # <<>> /\ over[1] # <<>> THEN over[1]
                    ELSE getTempDumpRoot
            dirName == IF db.alias # <<>> /\ db.alias[1] # "" THEN db.alias[1]
                       ELSE db.name
            gz == db.gzipDefault = <<TRUE>>
        IN  /\ call.out.dir = root \o <<db.environment, dirName>>
            /\ call.out.base =
                   <<db.name, "-">> \o timestampString(call.in.t) \o <<".sql">>
                       \o (IF gz THEN <<".gz">> ELSE <<>>)

\* C30: savePassword returns a ref in the namespace of the backend that
\* stored the secret (keytar when the module loads, plaintext otherwise);
\* resolvePassword of that ref returns the secret; resolvePassword of the
\* empty ref or of a ref in neither namespace returns undefined.
C30_SecretRoundTrip ==
    /\ secretCall.fn = "savePassword" =>
           /\ secretCall.out.storage = (IF keytarInstalled THEN "keytar" ELSE "plaintext")
           /\ StartsWith(secretCall.out.ref,
                         IF keytarInstalled THEN <<"keytar", ":">>
                         ELSE <<"plaintext", ":">>)
    /\ secretCall.fn = "resolvePassword" =>
           /\ (lastSave.storage # "none" /\ secretCall.in.ref = lastSave.ref) =>
                  secretCall.out = [kind |-> "string", text |-> lastSave.secret]
           /\ (\/ secretCall.in.ref = <<>>
               \/ /\ ~StartsWith(secretCall.in.ref, <<"keytar", ":">>)
                  /\ ~StartsWith(secretCall.in.ref, <<"plaintext", ":">>)) =>
                  secretCall.out.kind = "undefined"

C30_Witness ==
    /\ secretCall.fn = "resolvePassword"
    /\ lastSave.storage = "keytar"
    /\ secretCall.in.ref = lastSave.ref
    /\ secretCall.out = [kind |-> "string", text |-> <<"pa", ":", "ss">>]

(***************************************************************************)
(* Properties of overlapping saves, of the wizard and of the dump flow.    *)
(***************************************************************************)
RaceOver == \A c \in Savers : rcPc[c] \in {"done", "failed"}

\* C34: when two saveConfig calls on one path have both ended, neither has
\* failed and the config path holds the complete text of exactly one of the
\* two configurations, never a mix and never a truncated file.
C34_OneWholeConfigNoFailure ==
    RaceOver =>
        /\ \A c \in Savers : rcPc[c] = "done"
        /\ rcPaths.cfg # 0
        /\ rcInodes[rcPaths.cfg].whole
        /\ rcInodes[rcPaths.cfg].text \in {TextOf(c) : c \in Savers}

\* handleFlagsDone has run on an existing target
Updated == wzEditing # <<>> /\ wzPc \in {"saving", "testing", "message", "rejected"}

\* C37: when handleFlagsDone updates an existing target it keeps the target's
\* id, createdAt and position in the list and leaves the other targets alone,
\* sets updatedAt to the current instant, and keeps passwordRef when the
\* password was left blank; the configuration is on disk before the
\* connection test runs and stays there whatever the test's result.
C37_UpdateKeepsIdentity ==
    Updated =>
        LET old == wzEditing[1]
            i == CHOOSE k \in DOMAIN wzBefore : wzBefore[k].id = old.id
            new == wzList[i]
        IN  /\ wzBefore[i] = old
            /\ Len(wzList) = Len(wzBefore)
            /\ \A j \in DOMAIN wzBefore : j # i => wzList[j] = wzBefore[j]
            /\ new.id = old.id
            /\ new.createdAt = old.createdAt
            /\ new.updatedAt = wzNow
            /\ wzPassword = <<>> => new.passwordRef = old.passwordRef
            /\ wzPc \in {"testing", "message"} => wzDisk = wzList

\* the second of two targets was updated with a blank password at a later
\* instant, saved, and its connection test failed
C37_Witness ==
    /\ wzPc = "message"
    /\ wzMessage = "Connection test failed"
    /\ wzEditing = <<StoredTargets[2]>>
    /\ wzPassword = <<>>
    /\ wzNow = 2
    /\ wzDisk = <<StoredTargets[1],
                  [StoredTargets[2] EXCEPT !.name = "wiki", !.updatedAt = 2]>>

\* C38: the destination path runDumpFlow passes to runDump ends in .sql.gz
\* exactly when the request's compression flag is on.
C38_DestinationMatchesCompression ==
    dsPc = "dumping" => (EndsInSqlGz(dsRequest.outputPath) <=> dsRequest.gzip)

====
